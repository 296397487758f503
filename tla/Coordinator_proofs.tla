--------------------------- MODULE Coordinator_proofs ---------------------------
(***************************************************************************)
(* For any number of sessions, cycles and starts, and whatever fails, is   *)
(* cancelled or crashes: a run only makes calls that sessions allow, skips *)
(* used cycles, ends no session early and leaves nothing behind unreported.*)
(***************************************************************************)
EXTENDS Coordinator, ExecutionSessions_proofs

\* The row of a session that has been activated.
Seen(s) == sessions[s].status \in {"ACTIVE", "EXPIRED", "KILLED", "COMPLETED"}

\* What no step undoes in such a row; and what all but two steps leave alone.
Lasts(s) ==
    /\ Seen(s) => Seen(s)'
    /\ Seen(s) /\ Ended(s) => Ended(s)'
    /\ Seen(s) => sessions[s].cycles \subseteq sessions'[s].cycles
Calm(s) ==
    /\ Lasts(s)
    /\ Seen(s) =>
          /\ sessions'[s].cycles = sessions[s].cycles
          /\ OrdersConsumed(s)' = OrdersConsumed(s)
          /\ sessions[s].next >= sessions[s].ttl => sessions'[s].next >= sessions'[s].ttl
          /\ Lapsed(s) => Lapsed(s)' \/ Ended(s)'

LEMMA SameCalm == ASSUME UNCHANGED sessions, NEW s \in Sessions PROVE Calm(s)
BY DEF Calm, Lasts, Seen, Ended, OrdersConsumed, Lapsed

\* A row that at most ends.
MayEnd(old, row) ==
    /\ row.status = old.status \/ row.status \in EndedStatus
    /\ row.cycles = old.cycles /\ row.opening = old.opening /\ row.closing = old.closing
    /\ row.next = old.next /\ row.ttl = old.ttl

LEMMA RowCalm ==
    ASSUME RowsInv, NEW t \in Sessions, NEW row, sessions' = [sessions EXCEPT ![t] = row],
           Seen(t) => MayEnd(sessions[t], row), NEW s \in Sessions
    PROVE  Calm(s)
<1>1. s # t => sessions'[s] = sessions[s]
  BY DEF RowsInv
<1>2. s = t => sessions'[s] = row
  BY DEF RowsInv
<1>3. CASE s # t
  BY <1>1, <1>3 DEF Calm, Lasts, Seen, Ended, OrdersConsumed, Lapsed
<1>4. CASE s = t
  BY <1>2, <1>4 DEF MayEnd, Calm, Lasts, Seen, Ended, EndedStatus, OrdersConsumed, Lapsed, Open
<1>. QED BY <1>3, <1>4

LEMMA EndCalm ==
    ASSUME RowsInv, NEW t \in Sessions, NEW s \in Sessions,
           \/ CreateSession(t) \/ ExpireSession(t) \/ Kill(t) \/ Finish(t)
           \/ \E c \in Cycles : CycleEnd(t, c)
           \/ \E i \in Intents : GateResult(t, i)
           \/ \E i \in Intents, w \in Owners : GateKill(t, i, w)
    PROVE  Calm(s)
<1>0. sessions[t] \in Session
  BY DEF RowsInv
<1>1. CASE CreateSession(t)
  BY <1>1, RowCalm DEF CreateSession, Has, Seen
<1>2. ASSUME NEW status \in EndedStatus, sessions' = [sessions EXCEPT ![t].status = status]
      PROVE  Calm(s)
  <2>. DEFINE row == [sessions[t] EXCEPT !.status = status]
  <2>1. MayEnd(sessions[t], row)
    BY <1>0 DEF MayEnd, Session
  <2>2. sessions' = [sessions EXCEPT ![t] = row]
    BY <1>2
  <2>. HIDE DEF row
  <2>. QED BY <2>1, <2>2, RowCalm
<1>3. CASE ExpireSession(t)
  BY <1>2, <1>3 DEF ExpireSession, Expired, EndedStatus
<1>4. CASE Finish(t)
  BY <1>2, <1>4 DEF Finish, EndedStatus
<1>5. MayEnd(sessions[t], KilledRow(sessions[t]))
  BY <1>0 DEF MayEnd, KilledRow, Session, EndedStatus
<1>6. CASE Kill(t) \/ \E i \in Intents, w \in Owners : GateKill(t, i, w)
  BY <1>5, <1>6, RowCalm DEF Kill, GateKill
<1>7. ASSUME NEW c \in Cycles, CycleEnd(t, c) PROVE Calm(s)
  <2>. DEFINE row == [sessions[t] EXCEPT !.ended = @ \cup {c}]
  <2>1. MayEnd(sessions[t], row)
    BY <1>0 DEF MayEnd, Session
  <2>2. sessions' = [sessions EXCEPT ![t] = row]
    BY <1>7 DEF CycleEnd
  <2>. HIDE DEF row
  <2>. QED BY <2>1, <2>2, RowCalm
<1>8. ASSUME NEW i \in Intents, GateResult(t, i) PROVE Calm(s)
  <2>. DEFINE failed == sessions[t].failed \cup {i}
              counted == [sessions[t] EXCEPT !.failed = failed]
  <2>1. /\ counted.status = sessions[t].status /\ counted.ttl = sessions[t].ttl
        /\ MayEnd(sessions[t], counted) /\ counted \in [status: SessionStatus, starts: 0..SessionDelay, ttl: 0..SessionTTL,
            next: 0..Cadence, opening: Nat, closing: Nat, risk: Nat,
            reserved: SUBSET Intents, failed: {failed},
            cycles: SUBSET Cycles, ended: SUBSET Cycles]
    BY <1>0 DEF MayEnd, Session
  <2>2. MayEnd(sessions[t], KilledRow(counted))
    <3>. HIDE DEF counted
    <3>. QED BY <2>1 DEF MayEnd, KilledRow, EndedStatus
  <2>3. MayEnd(sessions[t], sessions[t])
    BY DEF MayEnd
  <2>4. ResultRow(t, i) \in {KilledRow(sessions[t]), KilledRow(counted), counted, sessions[t]}
    BY DEF ResultRow
  <2>5. MayEnd(sessions[t], ResultRow(t, i))
    <3>. HIDE DEF counted
    <3>. QED BY <1>5, <2>1, <2>2, <2>3, <2>4
  <2>. QED BY <1>8, <2>5, RowCalm DEF GateResult
<1>. QED BY <1>1, <1>3, <1>4, <1>6, <1>7, <1>8

LEMMA ActivateCalm ==
    ASSUME RowsInv, NEW t \in Sessions, NEW s \in Sessions, Activate(t)
    PROVE  Calm(s)
<1>1. /\ sessions[s] \in Session /\ sessions'[s] = Activated(t)[s]
      /\ sessions[t].status = "DRAFT"
  BY DEF RowsInv, Activate, Has
<1>2. CASE s = t
  BY <1>1, <1>2 DEF Calm, Lasts, Seen
<1>3. CASE s # t /\ Has(s, "ACTIVE") /\ Lapsed(s)
  <2>1. sessions'[s] = Expired(s)
    BY <1>1, <1>3 DEF Activated
  <2>2. MayEnd(sessions[s], sessions'[s]) /\ sessions'[s].status = "EXPIRED"
    BY <1>1, <2>1 DEF Expired, Session, MayEnd, EndedStatus
  <2>. QED BY <2>2 DEF MayEnd, Calm, Lasts, Seen, Ended, EndedStatus, OrdersConsumed, Lapsed, Open
<1>4. CASE s # t /\ ~(Has(s, "ACTIVE") /\ Lapsed(s))
  <2>1. sessions'[s] = sessions[s]
    BY <1>1, <1>4 DEF Activated
  <2>. QED BY <2>1 DEF Calm, Lasts, Seen, Ended, OrdersConsumed, Lapsed
<1>. QED BY <1>2, <1>3, <1>4

LEMMA TickCalm ==
    ASSUME RowsInv, SessionTick, NEW s \in Sessions
    PROVE  Calm(s)
<1>. DEFINE row == [sessions[s] EXCEPT !.starts = Elapse(@), !.ttl = Elapse(@), !.next = Elapse(@)]
<1>1. sessions[s] \in Session /\ sessions'[s] = row
  BY DEF RowsInv, SessionTick
<1>2. /\ row.status = sessions[s].status /\ row.cycles = sessions[s].cycles
      /\ row.opening = sessions[s].opening /\ row.closing = sessions[s].closing
      /\ row.ttl = Elapse(sessions[s].ttl) /\ row.next = Elapse(sessions[s].next)
  BY <1>1 DEF Session
<1>. HIDE DEF row
<1>3. sessions[s].ttl \in Nat /\ sessions[s].next \in Nat
  BY <1>1, SessionConstants DEF Session
<1>. QED BY <1>1, <1>2, <1>3 DEF Calm, Lasts, Seen, Ended, OrdersConsumed, Lapsed, Elapse

-----------------------------------------------------------------------------
AllPcs == OutsidePcs \cup TryPcs \cup CleanupPcs \cup EndPcs
\* Where a run may hold the lease; where it works on its cycle; where it has its order.
Holding == {"start", "complete", "abandon"} \cup WorkPcs \cup CleanupPcs
Started == WorkPcs \cup {"complete", "end"}
Ordering == {"dispatch", "reread", "report"}
\* Where it goes for a cycle that was not used; where its work has not been begun.
Unused == {"wait", "nap", "acquire", "start"}
Before == Unused \cup {"enter", "look", "scan"}
Finishing == {"finish", "final", "close"}
\* Where a lease is left behind when its release fails.
Leaving == {"final", "close", "returned", "raised"}

\* What excuses a lease that is held, a session left open, a session completed early.
Unreleased(lost) == lost \cap {"release", "cancelled"} # {}
Deserted(lost) == lost \cap {"kill", "cancelled", "outside"} # {}
Excused(lost) == lost \cap {"kill", "clock"} # {}

\* Why the session may be completed.
Justified(s) ==
    \/ Ended(s) \/ Lapsed(s)
    \/ Cardinality(sessions[s].cycles) = Limits[s].cycles
    \/ OrdersConsumed(s) >= Limits[s].total
    \/ sessions[s].next >= sessions[s].ttl

RunOK == run.pc # "off" =>
    /\ S \in Sessions /\ run.start \in 1..Starts /\ run.seq \in 1..Limits[S].cycles
    /\ Seen(S)
    /\ run.known \subseteq sessions[S].cycles
    /\ run.pc \in Ordering => C \in Intents
    /\ run.pc \in Unused => C \notin run.known

\* The cycles behind the run are used.
UsedOK ==
    /\ run.pc \notin EndPcs =>
          Ended(S) \/ \A k \in 1..3 : k < run.seq => <<S, k>> \in sessions[S].cycles
    /\ run.pc \in Started => Ended(S) \/ C \in sessions[S].cycles

\* What the end of a run rests on.
EndOK ==
    /\ run.pc \in {"returned", "abandon"} => Ended(S)
    /\ run.pc = "raised" => Ended(S) \/ Deserted(run.lost)
    /\ run.pc \in {"failed release", "denied release"} /\ "kill" \notin run.lost => Ended(S)
    /\ run.pc \in Finishing => Justified(S) \/ Excused(run.lost)

HeldOK == HoldsAnyLease =>
    \/ run.pc \in Holding /\ lease.owner = W
    \/ run.pc = "crashed"
    \/ run.pc \in Leaving /\ Unreleased(run.lost)

PastOwners == \A k \in 1..Starts, n \in 1..3 : lease.owner = <<k, n>> => k <= run.start

\* The work on a cycle was begun: it is used or its session is over, and the run
\* that may still be working for the session is past it.
Past(s, k) == run.pc # "off" /\ run.session = s =>
    <<s, k>> \in run.known \/ k < run.seq \/ (k = run.seq /\ run.pc \notin Before)
BegunOK == \A s \in Sessions : \A k \in 1..Limits[s].cycles : begun[<<s, k>>] > 0 =>
    /\ Seen(s)
    /\ Ended(s) \/ <<s, k>> \in sessions[s].cycles
    /\ Past(s, k)

\* The ledger of a session has its own cycles.
OwnCycles == \A s \in Sessions : sessions[s].cycles \subseteq {s} \X (1..Limits[s].cycles)
Shrinks == \A s \in Sessions : sessions'[s].cycles \subseteq sessions[s].cycles
Ages == Shrinks /\ \A s \in Sessions : Lasts(s)

CoordinatorInv ==
    /\ SessionInv /\ OwnCycles
    /\ run \in Run /\ authorized \in BOOLEAN /\ begun \in [Cycles -> Nat]
    /\ RunOK /\ UsedOK /\ EndOK /\ HeldOK /\ PastOwners /\ BegunOK

\* The run goes on: where, and with what lost.
Moves(pc, lost) ==
    /\ run' \in Run
    /\ run'.pc = pc /\ run'.lost = lost
    /\ run'.session = run.session /\ run'.start = run.start
    /\ run'.seq = run.seq /\ run'.known = run.known

LEMMA GoToMoves ==
    ASSUME run \in Run, NEW pc \in AllPcs, GoTo(pc)
    PROVE  Moves(pc, run.lost)
BY DEF GoTo, Moves, Run, AllPcs

LEMMA LosesMoves ==
    ASSUME run \in Run, NEW pc \in AllPcs, NEW what \in SUBSET Losses, Lose(pc, what)
    PROVE  Moves(pc, run.lost \cup what)
<1>. DEFINE q == [run EXCEPT !.pc = pc, !.lost = @ \cup what]
<1>1. /\ q \in Run /\ q.pc = pc /\ q.lost = run.lost \cup what
      /\ q.session = run.session /\ q.start = run.start /\ q.seq = run.seq /\ q.known = run.known
  BY DEF Run, AllPcs
<1>2. run' = q
  BY DEF Lose
<1>. HIDE DEF q
<1>. QED BY <1>1, <1>2 DEF Moves

\* Where an exception takes the run.
Throws ==
    \/ run.pc \in OutsidePcs /\ Moves("raised", run.lost \cup {"outside"})
    \/ run.pc \in TryPcs /\ Moves("failed", run.lost)
    \/ run.pc = "denied" /\ Moves("denied release", run.lost \cup {"kill"})
    \/ run.pc = "failed" /\ Moves("failed release", run.lost \cup {"kill"})
    \/ run.pc = "denied release" /\ Moves("final", run.lost \cup {"release"})
    \/ run.pc = "failed release" /\ Moves("raised", run.lost \cup {"release"})
    \/ run.pc \in CleanupPcs /\ Moves("raised", run.lost \cup {"cancelled"})

LEMMA ExceptionThrows == ASSUME run \in Run, Exception \/ Cancelled PROVE Throws
<1>1. /\ "raised" \in AllPcs /\ "failed" \in AllPcs /\ "denied release" \in AllPcs
      /\ "failed release" \in AllPcs /\ "final" \in AllPcs
  BY DEF AllPcs, EndPcs, CleanupPcs, OutsidePcs
<1>2. {{"kill"}, {"release"}, {"cancelled"}, {"outside"}} \subseteq SUBSET Losses
  BY DEF Losses
<1>. QED BY <1>1, <1>2, GoToMoves, LosesMoves DEF Exception, Cancelled, Throws, Is

LEMMA ConstantsFit ==
    ASSUME NEW s \in Sessions, NEW n \in 1..Limits[s].cycles, NEW k \in 1..Starts
    PROVE  /\ n \in 1..3 /\ <<s, n>> \in Cycles /\ <<k, n>> \in Owners
           /\ Limits[s].cycles \in 1..3
<1>1. Limits[s].cycles \in 1..3
  BY SessionConstants DEF Limit
<1>2. n \in 1..3
  BY <1>1
<1>3. <<s, n>> \in {s} \X (1..Limits[s].cycles)
  OBVIOUS
<1>4. <<s, n>> \in Cycles
  BY <1>3, CoordinatorConstants
<1>. QED BY <1>1, <1>2, <1>4, CoordinatorConstants

LEMMA RunFits ==
    ASSUME CoordinatorInv, run.pc # "off"
    PROVE  /\ S \in Sessions /\ C \in Cycles /\ W \in Owners
           /\ run.seq \in 1..3 /\ Limits[S].cycles \in 1..3
           /\ C = <<S, run.seq>> /\ W = <<run.start, run.seq>>
BY ConstantsFit DEF CoordinatorInv, RunOK, C, W

LEMMA BegunLasts ==
    ASSUME CoordinatorInv, UNCHANGED begun, \A s \in Sessions : Lasts(s),
           \A s \in Sessions : \A k \in 1..Limits[s].cycles : Past(s, k) => Past(s, k)'
    PROVE  BegunOK'
BY DEF BegunOK, CoordinatorInv, Lasts

LEMMA MovesPast ==
    ASSUME NEW pc, NEW lost, Moves(pc, lost), run.pc # "off" \/ pc = "off", pc \in Before => run.pc \in Before,
           NEW s \in Sessions, NEW k \in 1..Limits[s].cycles, Past(s, k)
    PROVE  Past(s, k)'
BY DEF Past, Moves

\* A step that is no grant and begins no work, and the place it takes the run to.
LEMMA Arrives ==
    ASSUME CoordinatorInv, [SessionNext]_sessionVars, run.pc \notin EndPcs,
           NEW pc, NEW lost, Moves(pc, lost), UNCHANGED begun, authorized' \in BOOLEAN,
           Calm(S), Ages,
           lease'.owner \in {lease.owner, NoOwner},
           HoldsAnyLease' => /\ HoldsAnyLease /\ lease'.owner = lease.owner
                             /\ \/ pc = "crashed"
                                \/ pc \in Holding /\ run.pc \in Holding
                                \/ pc \in Leaving /\ Unreleased(lost),
           pc # "start", pc # "off",
           pc \in Before => run.pc \in Before,
           pc \in Ordering => C \in Intents,
           pc \in Unused => C \notin run.known,
           pc \in Started => run.pc \in Started,
           pc \in {"returned", "abandon"} => Ended(S)',
           pc = "raised" => Ended(S)' \/ Deserted(lost),
           pc \in {"failed release", "denied release"} /\ "kill" \notin lost => Ended(S)',
           pc \in Finishing => Justified(S)' \/ Excused(lost)
    PROVE  CoordinatorInv'
<1>1. SessionInv'
  BY SessionNextInv DEF CoordinatorInv
<1>2. run.pc # "off" /\ RunOK /\ S' = S /\ C' = C /\ W' = W
  BY DEF EndPcs, CoordinatorInv, Moves, S, C, W
<1>3. Seen(S) /\ Seen(S)'
  BY <1>2 DEF RunOK, Calm, Lasts
<1>4. RunOK'
  BY <1>2, <1>3 DEF RunOK, Moves, Calm
<1>5. UsedOK'
  BY <1>2, <1>3 DEF CoordinatorInv, UsedOK, Moves, Calm, Lasts
<1>6. EndOK'
  BY DEF EndOK, Moves
<1>7. HeldOK'
  <2>1. CASE ~HoldsAnyLease'
    BY <2>1 DEF HeldOK
  <2>2. CASE HoldsAnyLease'
    <3>1. /\ HoldsAnyLease /\ lease'.owner = lease.owner
          /\ \/ pc = "crashed"
             \/ pc \in Holding /\ run.pc \in Holding
             \/ pc \in Leaving /\ Unreleased(lost)
      BY <2>2
    <3>2. run.pc \in Holding => lease.owner = W
      <4>1. Holding \cap Leaving = {} /\ "crashed" \notin Holding
        BY DEF Holding, Leaving, WorkPcs, CleanupPcs
      <4>. QED BY <3>1, <4>1 DEF HeldOK, CoordinatorInv
    <3>3. run'.pc = pc /\ run'.lost = lost
      BY DEF Moves
    <3>. QED BY <1>2, <3>1, <3>2, <3>3 DEF HeldOK
  <2>. QED BY <2>1, <2>2
<1>8. PastOwners'
  <2>1. \A k \in 1..Starts, n \in 1..3 : <<k, n>> # NoOwner
    BY CoordinatorConstants, LeaseConstants
  <2>. QED BY <2>1 DEF PastOwners, CoordinatorInv, Moves
<1>9. BegunOK'
  BY <1>2, BegunLasts, MovesPast DEF Ages
<1>10. OwnCycles'
  BY DEF CoordinatorInv, OwnCycles, Ages, Shrinks
<1>. QED BY <1>1, <1>4, <1>5, <1>6, <1>7, <1>8, <1>9, <1>10 DEF CoordinatorInv, Moves

\* The lease runs on, lapses or is freed.
LeaseCalm ==
    /\ lease'.owner \in {lease.owner, NoOwner}
    /\ LeaseLive' => LeaseLive /\ lease'.owner = lease.owner

\* A run that may hold the lease keeps to the places where it may.
Keeps(pc, lost) ==
    \/ pc = "crashed" \/ ~HoldsAnyLease'
    \/ /\ run.pc \in Holding => pc \in Holding \/ (pc \in Leaving /\ Unreleased(lost))
       /\ run.pc \in Leaving /\ Unreleased(run.lost) => pc \in Leaving /\ Unreleased(lost)

\* What has to be true at pc, for a run of session s that begins no work.
Arrival(s, pc, lost) ==
    /\ pc \notin {"start", "off"}
    /\ pc \in Before => run.pc \in Before
    /\ pc \in Ordering => C \in Intents
    /\ pc \in Unused => C \notin run.known
    /\ pc \in Started => run.pc \in Started
    /\ pc \in {"returned", "abandon"} => Ended(s)'
    /\ pc = "raised" => Ended(s)' \/ Deserted(lost)
    /\ pc \in {"failed release", "denied release"} /\ "kill" \notin lost => Ended(s)'
    /\ pc \in Finishing => Justified(s)' \/ Excused(lost)

LEMMA Goes ==
    ASSUME CoordinatorInv, [SessionNext]_sessionVars, run.pc \notin EndPcs,
           NEW s \in Sessions, run.session = s, NEW pc, NEW lost, Moves(pc, lost),
           UNCHANGED begun, authorized' \in BOOLEAN,
           Calm(s), Ages, LeaseCalm, Keeps(pc, lost), Arrival(s, pc, lost)
    PROVE  CoordinatorInv'
<1>1. S = s /\ S' = s
  BY DEF S, Moves
<1>2. Calm(S)
  BY <1>1 DEF Calm, Lasts, Seen, Ended, OrdersConsumed, Lapsed
<1>3. run'.start = run.start /\ run.pc # "crashed"
  BY DEF Moves, EndPcs
<1>4. HoldsAnyLease' => /\ HoldsAnyLease /\ lease'.owner = lease.owner
                        /\ \/ pc = "crashed"
                           \/ pc \in Holding /\ run.pc \in Holding
                           \/ pc \in Leaving /\ Unreleased(lost)
  <2>. SUFFICES ASSUME HoldsAnyLease'
                PROVE  /\ HoldsAnyLease /\ lease'.owner = lease.owner
                       /\ \/ pc = "crashed"
                          \/ pc \in Holding /\ run.pc \in Holding
                          \/ pc \in Leaving /\ Unreleased(lost)
    OBVIOUS
  <2>1. LeaseLive' /\ LeaseLive /\ lease'.owner = lease.owner
    BY DEF HoldsAnyLease, LeaseCalm
  <2>2. HoldsAnyLease
    BY <1>3, <2>1 DEF HoldsAnyLease
  <2>3. run.pc \in Holding \/ (run.pc \in Leaving /\ Unreleased(run.lost))
    BY <1>3, <2>2 DEF CoordinatorInv, HeldOK
  <2>. QED BY <2>1, <2>2, <2>3 DEF Keeps
<1>5. Ended(S)' = Ended(s)' /\ Justified(S)' = Justified(s)'
  BY <1>1 DEF Ended, Justified, OrdersConsumed, Lapsed
<1>. QED BY <1>2, <1>4, <1>5, Arrives DEF Arrival, LeaseCalm

LEMMA LeaseTyped == CoordinatorInv => lease \in Lease
BY DEF CoordinatorInv, SessionInv, IntentInv, LeaseInv, LeaseTypeOK

LEMMA LeaseSame == ASSUME CoordinatorInv, UNCHANGED lease PROVE LeaseCalm
BY DEF LeaseCalm, LeaseLive

LEMMA LeaseFreed == ASSUME CoordinatorInv, lease' = FreedLease PROVE LeaseCalm /\ ~LeaseLive'
<1>1. /\ lease'.owner = NoOwner /\ lease'.ttl = 0
  BY LeaseTyped DEF FreedLease, Lease
<1>. QED BY <1>1 DEF LeaseCalm, LeaseLive

LEMMA LeaseTicks == ASSUME CoordinatorInv, LeaseTick PROVE LeaseCalm
<1>1. /\ lease'.owner = lease.owner /\ lease'.ttl = Elapse(lease.ttl)
      /\ lease.ttl \in 0..LeaseTTL
  BY LeaseTyped DEF LeaseTick, Lease
<1>2. LeaseLive' => LeaseLive
  BY <1>1, LeaseConstants DEF LeaseLive, Elapse
<1>. QED BY <1>1, <1>2 DEF LeaseCalm

LEMMA RowShrinks ==
    ASSUME RowsInv, NEW t \in Sessions, NEW row, sessions' = [sessions EXCEPT ![t] = row],
           row.cycles \subseteq sessions[t].cycles
    PROVE  Shrinks
BY DEF RowsInv, Shrinks

LEMMA CallShrinks ==
    ASSUME RowsInv, NEW t \in Sessions,
           \/ CreateSession(t) \/ ExpireSession(t) \/ Kill(t) \/ Finish(t) \/ Activate(t)
           \/ \E c \in Cycles : CycleEnd(t, c)
           \/ \E i \in Intents : GateResult(t, i)
           \/ \E i \in Intents, w \in Owners : GateKill(t, i, w) \/ GateReserve(t, i, w)
    PROVE  Shrinks
<1>0. sessions \in [Sessions -> Session] /\ sessions[t] \in Session
  BY DEF RowsInv
<1>1. CASE CreateSession(t)
  BY <1>0, <1>1 DEF Shrinks, CreateSession, NoSession, Session
<1>7. CASE ExpireSession(t) \/ Finish(t)
  BY <1>0, <1>7 DEF Shrinks, ExpireSession, Expired, Finish, Session
<1>8. CASE \E c \in Cycles : CycleEnd(t, c)
  BY <1>0, <1>8 DEF Shrinks, CycleEnd, Session
<1>2. KilledRow(sessions[t]).cycles = sessions[t].cycles
  BY <1>0 DEF KilledRow, Session
<1>3. CASE Kill(t) \/ \E i \in Intents, w \in Owners : GateKill(t, i, w)
  BY <1>2, <1>3, RowShrinks DEF Kill, GateKill
<1>4. CASE Activate(t)
  BY <1>0, <1>4 DEF Shrinks, Activate, Activated, Expired, Session
<1>5. ASSUME NEW i \in Intents, GateResult(t, i) PROVE Shrinks
  <2>1. ResultRow(t, i).cycles = sessions[t].cycles
    BY <1>0, <1>2 DEF ResultRow, KilledRow, Session
  <2>. QED BY <1>5, <2>1, RowShrinks DEF GateResult
<1>6. ASSUME NEW i \in Intents, NEW w \in Owners, GateReserve(t, i, w) PROVE Shrinks
  <2>1. ReservedRow(t, i).cycles = sessions[t].cycles
    BY <1>0 DEF ReservedRow, Session
  <2>. QED BY <1>6, <2>1, RowShrinks DEF GateReserve
<1>. QED BY <1>1, <1>3, <1>4, <1>5, <1>6, <1>7, <1>8

LEMMA TickShrinks == ASSUME RowsInv, SessionTick PROVE Shrinks
BY DEF RowsInv, SessionTick, Shrinks, Session

\* The calls that may end a row but take nothing else from it.
SessionCall(s) ==
    \/ Inspect(s) \/ KillCall(s) \/ FinishCall(s)
    \/ ExpireSession(s) \/ \E c \in Cycles : CycleEnd(s, c)
    \/ \E i \in Intents : GateResult(s, i)
    \/ UNCHANGED sessionVars

LEMMA CallCalm ==
    ASSUME CoordinatorInv, NEW s \in Sessions, SessionCall(s), Seen(s)
    PROVE  /\ [SessionNext]_sessionVars /\ UNCHANGED <<lease, intents>>
           /\ Calm(s) /\ Ages /\ LeaseCalm
           /\ ~Running(s) => Ended(s)'
           /\ KillCall(s) \/ FinishCall(s) => Ended(s)'
<1>1. CASE UNCHANGED sessionVars
  <2>1. UNCHANGED <<sessions, lease, intents>>
    BY <1>1 DEF sessionVars, intentVars, leaseVars
  <2>2. Calm(s) /\ Ages /\ LeaseCalm
    BY <2>1, SameCalm, LeaseSame DEF Ages, Shrinks, Calm
  <2>3. ASSUME KillCall(s) \/ FinishCall(s) PROVE Ended(s)'
    <3>1. CASE Ended(s)
      BY <2>1, <3>1 DEF Ended
    <3>2. CASE ExpireSession(s) \/ Kill(s) \/ Finish(s)
      <4>1. sessions[s].status \in Open /\ sessions[s] \in Session /\ sessions' [s] \in Session
        BY <2>1, <3>2 DEF CoordinatorInv, SessionInv, RowsInv, ExpireSession, Lapsed, Kill, Finish
      <4>2. sessions'[s].status \in EndedStatus
        BY <4>1, <3>2 DEF ExpireSession, Expired, Kill, Finish, KilledRow, EndedStatus, Session,
           CoordinatorInv, SessionInv, RowsInv
      <4>. QED BY <4>2 DEF Ended, EndedStatus, Open
    <3>. QED BY <2>3, <3>1, <3>2 DEF KillCall, FinishCall
  <2>. QED BY <1>1, <2>1, <2>2, <2>3 DEF Running, Seen, Ended, Open
<1>2. CASE \/ ExpireSession(s) \/ Kill(s) \/ Finish(s) \/ \E c \in Cycles : CycleEnd(s, c)
           \/ \E i \in Intents : GateResult(s, i)
  <2>0. RowsInv
    BY DEF CoordinatorInv, SessionInv
  <2>1. SessionNext
    BY <1>2 DEF SessionNext, SessionControl
  <2>2. UNCHANGED <<lease, intents>>
    BY <1>2 DEF ExpireSession, Kill, Finish, CycleEnd, GateResult, intentVars, leaseVars
  <2>3. Calm(s) /\ Ages /\ LeaseCalm
    BY <1>2, <2>0, <2>2, EndCalm, CallShrinks, LeaseSame DEF Ages, Calm
  <2>4. ~Running(s) => Ended(s)'
    BY <2>3 DEF Calm, Lasts, Seen, Ended, Running, Open
  <2>5. ASSUME ExpireSession(s) \/ Kill(s) \/ Finish(s) PROVE Ended(s)'
    <3>1. sessions[s].status \in Open /\ sessions[s] \in Session /\ sessions \in [Sessions -> Session]
      BY <2>0, <2>5 DEF RowsInv, ExpireSession, Lapsed, Kill, Finish
    <3>2. sessions'[s].status \in EndedStatus
      BY <3>1, <2>5 DEF ExpireSession, Expired, Kill, Finish, KilledRow, EndedStatus, Session
    <3>. QED BY <3>2 DEF Ended, EndedStatus, Open
  <2>6. ASSUME Ended(s) PROVE Ended(s)'
    BY <2>6, <2>3 DEF Calm, Lasts
  <2>. QED BY <2>1, <2>2, <2>3, <2>4, <2>5, <2>6 DEF KillCall, FinishCall
<1>. QED BY <1>1, <1>2 DEF SessionCall, Inspect, KillCall, FinishCall

\* An exception takes the run on, whatever the call had done.
LEMMA ExceptionGoes ==
    ASSUME CoordinatorInv, [SessionNext]_sessionVars, run.pc \notin EndPcs,
           NEW s \in Sessions, run.session = s, Exception \/ Cancelled,
           UNCHANGED begun, authorized' \in BOOLEAN,
           Calm(s), Ages, LeaseCalm
    PROVE  CoordinatorInv'
<1>1. Throws
  BY ExceptionThrows DEF CoordinatorInv
<1>2. S = s /\ Seen(s) /\ EndOK
  BY DEF CoordinatorInv, RunOK, S, EndPcs
<1>3. Ended(s) => Ended(s)' /\ Justified(s)'
  BY <1>2 DEF Calm, Lasts, Justified
<1>4. CASE run.pc \in OutsidePcs /\ Moves("raised", run.lost \cup {"outside"})
  <2>1. Keeps("raised", run.lost \cup {"outside"})
    BY <1>4 DEF Keeps, Holding, Leaving, OutsidePcs, WorkPcs, CleanupPcs, Unreleased
  <2>2. Arrival(s, "raised", run.lost \cup {"outside"})
    BY DEF Arrival, Before, Ordering, Unused, Started, WorkPcs, Finishing, Deserted, Excused
  <2>. QED BY <1>4, <2>1, <2>2, Goes
<1>5. CASE run.pc \in TryPcs /\ Moves("failed", run.lost)
  <2>1. Keeps("failed", run.lost)
    BY <1>5 DEF Keeps, Holding, Leaving, TryPcs, WorkPcs, CleanupPcs
  <2>2. Arrival(s, "failed", run.lost)
    BY DEF Arrival, Before, Ordering, Unused, Started, WorkPcs, Finishing, Deserted, Excused
  <2>. QED BY <1>5, <2>1, <2>2, Goes
<1>6. ASSUME NEW from \in {"denied", "failed"}, NEW to \in {"denied release", "failed release"},
             run.pc = from, Moves(to, run.lost \cup {"kill"})
      PROVE  CoordinatorInv'
  <2>1. Keeps(to, run.lost \cup {"kill"})
    BY <1>6 DEF Keeps, Holding, Leaving, WorkPcs, CleanupPcs
  <2>2. Arrival(s, to, run.lost \cup {"kill"})
    BY DEF Arrival, Before, Ordering, Unused, Started, WorkPcs, Finishing, Deserted, Excused
  <2>. QED BY <1>6, <2>1, <2>2, Goes
<1>7. ASSUME NEW to \in {"final", "raised"}, run.pc \in {"denied release", "failed release"},
             Moves(to, run.lost \cup {"release"})
      PROVE  CoordinatorInv'
  <2>1. Keeps(to, run.lost \cup {"release"})
    BY <1>7 DEF Keeps, Holding, Leaving, WorkPcs, CleanupPcs, Unreleased
  <2>2. "kill" \notin run.lost => Ended(s)
    BY <1>2, <1>7 DEF EndOK
  <2>3. Arrival(s, to, run.lost \cup {"release"})
    BY <1>3, <2>2 DEF Arrival, Before, Ordering, Unused, Started, WorkPcs, Finishing, Deserted, Excused
  <2>. QED BY <1>7, <2>1, <2>3, Goes
<1>8. CASE run.pc \in CleanupPcs /\ Moves("raised", run.lost \cup {"cancelled"})
  <2>1. Keeps("raised", run.lost \cup {"cancelled"})
    BY <1>8 DEF Keeps, Leaving, CleanupPcs, Unreleased
  <2>2. Arrival(s, "raised", run.lost \cup {"cancelled"})
    BY DEF Arrival, Before, Ordering, Unused, Started, WorkPcs, Finishing, Deserted
  <2>. QED BY <1>8, <2>1, <2>2, Goes
<1>. QED BY <1>1, <1>4, <1>5, <1>6, <1>7, <1>8 DEF Throws

LEMMA ReplyGoes ==
    ASSUME CoordinatorInv, [SessionNext]_sessionVars, run.pc \notin EndPcs,
           NEW s \in Sessions, run.session = s, NEW pc \in AllPcs, Reply(pc),
           UNCHANGED <<authorized, begun>>,
           Calm(s), Ages, LeaseCalm, Keeps(pc, run.lost), Arrival(s, pc, run.lost)
    PROVE  CoordinatorInv'
<1>1. authorized' \in BOOLEAN
  BY DEF CoordinatorInv
<1>2. CASE Exception \/ Cancelled
  BY <1>1, <1>2, ExceptionGoes
<1>3. CASE GoTo(pc)
  <2>1. Moves(pc, run.lost)
    BY <1>3, GoToMoves DEF CoordinatorInv
  <2>. QED BY <1>1, <2>1, Goes
<1>. QED BY <1>2, <1>3 DEF Reply

\* A call of session_control or of RESULT, answered or not.
LEMMA CallGoes ==
    ASSUME CoordinatorInv, run.pc \notin EndPcs, NEW s \in Sessions, run.session = s,
           SessionCall(s), NEW pc \in AllPcs, Reply(pc), UNCHANGED <<authorized, begun>>,
           Keeps(pc, run.lost), Arrival(s, pc, run.lost)
    PROVE  CoordinatorInv' /\ [SessionNext]_sessionVars
<1>1. Seen(s)
  BY DEF CoordinatorInv, RunOK, S, EndPcs
<1>. QED BY <1>1, CallCalm, ReplyGoes

\* The cycles of a session are used up when the last sequence number is behind the run.
LEMMA AllUsed ==
    ASSUME OwnCycles, NEW s \in Sessions,
           \A k \in 1..Limits[s].cycles : <<s, k>> \in sessions[s].cycles
    PROVE  Cardinality(sessions[s].cycles) = Limits[s].cycles
<1>. DEFINE n == Limits[s].cycles
            f == [k \in 1..n |-> <<s, k>>]
<1>1. n \in 1..3
  BY SessionConstants DEF Limit
<1>2. sessions[s].cycles = {s} \X (1..n)
  BY DEF OwnCycles
<1>3. f \in Bijection(1..n, {s} \X (1..n))
  <2>1. f \in [1..n -> {s} \X (1..n)]
    OBVIOUS
  <2>2. \A a, b \in 1..n : f[a] = f[b] => a = b
    OBVIOUS
  <2>3. \A t \in {s} \X (1..n) : \E k \in 1..n : f[k] = t
    OBVIOUS
  <2>. QED BY <2>1, <2>2, <2>3 DEF Bijection, Injection, IsInjective, Surjection
<1>4. IsFiniteSet(1..n) /\ Cardinality(1..n) = n
  BY <1>1, FS_Interval
<1>5. ExistsBijection(1..n, {s} \X (1..n))
  BY <1>3 DEF ExistsBijection
<1>. QED BY <1>2, <1>4, <1>5, FS_Bijection

-----------------------------------------------------------------------------
(* The steps that call session_control or RESULT.                          *)

StepOK == CoordinatorInv' /\ [SessionNext]_sessionVars

LEMMA JustifiedLasts ==
    ASSUME NEW s \in Sessions, Seen(s), Calm(s), Justified(s) PROVE Justified(s)'
BY DEF Calm, Lasts, Justified

LEMMA CallSteps ==
    ASSUME CoordinatorInv, NEW from \in AllPcs \ EndPcs, Is(from), NEW s \in Sessions, run.session = s,
           SessionCall(s), UNCHANGED <<authorized, begun>>,
           NEW pc \in AllPcs \ (Unused \cup {"off"}), Reply(pc), pc \in Before => from \in Before,
           from \in Holding => pc \in Holding, from \in Leaving => pc \in Leaving,
           pc \in Ordering => from \in Ordering, pc \in Started => from \in Started,
           pc \in {"returned", "abandon", "raised", "failed release", "denied release"}
              => KillCall(s) \/ FinishCall(s) \/ ~Running(s),
           pc \in Finishing => KillCall(s) \/ FinishCall(s) \/ ~Running(s) \/ from \in Finishing
    PROVE  StepOK
<1>1. run.pc = from /\ S = s /\ Seen(s) /\ RunOK /\ EndOK
  BY DEF Is, CoordinatorInv, RunOK, S, EndPcs
<1>2. Calm(s) /\ (KillCall(s) \/ FinishCall(s) \/ ~Running(s) => Ended(s)')
  BY <1>1, CallCalm
<1>3. Ended(s)' => Justified(s)'
  BY DEF Justified
<1>4. Keeps(pc, run.lost)
  BY <1>1 DEF Keeps
<1>5. from \in Finishing => Justified(s)' \/ Excused(run.lost)
  BY <1>1, <1>2, JustifiedLasts DEF EndOK, EndPcs
<1>6. pc \in Ordering => C \in Intents
  BY <1>1 DEF RunOK, EndPcs
<1>7. Arrival(s, pc, run.lost)
  BY <1>1, <1>2, <1>3, <1>5, <1>6 DEF Arrival, Unused
<1>. QED BY <1>1, <1>4, <1>7, CallGoes DEF StepOK

LEMMA RunSession == ASSUME CoordinatorInv, run.pc \notin EndPcs PROVE S \in Sessions /\ S = run.session
BY DEF CoordinatorInv, RunOK, EndPcs, S

LEMMA ControlSteps ==
    ASSUME CoordinatorInv, Enter \/ Refuse \/ Look \/ Stop \/ Halt \/ CleanupKill \/ Final \/ Close
    PROVE  StepOK
<1>0. run.pc \notin EndPcs
  BY DEF Enter, Refuse, Look, Stop, Halt, CleanupKill, Final, Close, Is, EndPcs
<1>1. PICK s \in Sessions : s = S /\ run.session = s
  BY <1>0, RunSession
<1>. USE <1>1 DEF AllPcs, OutsidePcs, TryPcs, WorkPcs, CleanupPcs, EndPcs, Holding, Leaving, Ordering, Started,
         Unused, Before, Finishing
<1>2. ASSUME NEW from, NEW to, Is(from), Reply(to), KillCall(s) \/ FinishCall(s), UNCHANGED <<authorized, begun>>,
             <<from, to>> \in {<<"refuse", "raised">>, <<"kill", "final">>, <<"finish", "final">>,
                               <<"halt", "abandon">>, <<"denied", "denied release">>,
                               <<"failed", "failed release">>, <<"close", "returned">>}
      PROVE  StepOK
  BY <1>2, CallSteps DEF SessionCall
<1>3. CASE Refuse
  BY <1>2, <1>3 DEF Refuse, Reply
<1>4. CASE Stop
  BY <1>2, <1>4 DEF Stop
<1>5. CASE Halt
  BY <1>2, <1>5 DEF Halt
<1>6. CASE CleanupKill
  BY <1>2, <1>6 DEF CleanupKill
<1>7. CASE Close
  BY <1>2, <1>7 DEF Close
<1>8. ASSUME NEW from, NEW to, Is(from), Reply(to), Inspect(s), UNCHANGED <<authorized, begun>>,
             <<from, to>> \in {<<"enter", "refuse">>, <<"enter", "look">>, <<"enter", "returned">>,
                               <<"look", "scan">>, <<"look", "final">>, <<"final", "close">>, <<"final", "returned">>},
             to = "returned" \/ <<from, to>> = <<"look", "final">> => ~Running(s)
      PROVE  StepOK
  BY <1>8, CallSteps DEF SessionCall
<1>9. CASE Enter
  <2>1. PICK pc \in {"refuse", "look", "returned"} : Reply(pc) /\ (pc = "returned" => ~Running(s))
    BY <1>9 DEF Enter
  <2>. QED BY <1>8, <1>9, <2>1 DEF Enter
<1>10. CASE Look
  <2>1. PICK pc \in {"scan", "final"} : Reply(pc) /\ (pc = "final" => ~Running(s))
    BY <1>10 DEF Look
  <2>. QED BY <1>8, <1>10, <2>1 DEF Look
<1>11. CASE Final
  <2>1. PICK pc \in {"close", "returned"} : Reply(pc) /\ (pc = "returned" => ~Running(s))
    BY <1>11 DEF Final
  <2>. QED BY <1>8, <1>11, <2>1 DEF Final
<1>. QED BY <1>3, <1>4, <1>5, <1>6, <1>7, <1>9, <1>10, <1>11

LEMMA WorkSteps ==
    ASSUME CoordinatorInv, Reread \/ Report
    PROVE  StepOK
<1>0. run.pc \in Ordering /\ run.pc \notin EndPcs
  BY DEF Reread, Report, Is, EndPcs, Ordering
<1>1. PICK s \in Sessions : s = S /\ run.session = s
  BY <1>0, RunSession
<1>2. C \in Intents
  BY <1>0 DEF CoordinatorInv, RunOK, EndPcs
<1>3. PICK from \in {"reread", "report"}, to \in {"report", "complete"} : Is(from) /\ Reply(to)
  BY DEF Reread, Report
<1>4. SessionCall(s) /\ UNCHANGED <<authorized, begun>>
  BY <1>1, <1>2 DEF Reread, Report, SessionCall, I
<1>. QED
  BY <1>1, <1>3, <1>4, CallSteps
  DEF AllPcs, OutsidePcs, TryPcs, WorkPcs, CleanupPcs, EndPcs, Holding, Leaving, Ordering, Started,
      Unused, Before, Finishing

-----------------------------------------------------------------------------
(* The steps that stay, and those of the run by itself.                    *)

LEMMA PastLasts ==
    ASSUME CoordinatorInv, lease'.owner \in {lease.owner, NoOwner}, run'.start \in Nat,
           run.start <= run'.start
    PROVE  PastOwners'
<1>1. \A k \in 1..Starts, n \in 1..3 : <<k, n>> # NoOwner
  BY CoordinatorConstants, LeaseConstants
<1>2. run.start \in Nat
  BY DEF CoordinatorInv, Run
<1>. SUFFICES ASSUME NEW k \in 1..Starts, NEW n \in 1..3, lease'.owner = <<k, n>> PROVE k <= run'.start
  BY DEF PastOwners
<1>3. k <= run.start
  BY <1>1 DEF CoordinatorInv, PastOwners
<1>. QED BY <1>2, <1>3

\* The run stays where it is, while something happens around it or to its order.
LEMMA Stays ==
    ASSUME CoordinatorInv, [SessionNext]_sessionVars, Moves(run.pc, run.lost),
           UNCHANGED begun, authorized' \in BOOLEAN, LeaseCalm, Shrinks,
           \A s \in Sessions : Lasts(s) /\ (run.pc # "dispatch" => Calm(s))
    PROVE  CoordinatorInv'
<1>1. SessionInv' /\ OwnCycles'
  BY SessionNextInv DEF CoordinatorInv, OwnCycles, Shrinks
<1>2. /\ S' = S /\ C' = C /\ W' = W /\ run'.pc = run.pc /\ run'.lost = run.lost
      /\ run'.start = run.start /\ run'.seq = run.seq /\ run'.known = run.known /\ run' \in Run
  BY DEF Moves, S, C, W
<1>3. PastOwners' /\ BegunOK'
  <2>1. PastOwners'
    BY <1>1, <1>2, PastLasts DEF LeaseCalm, Run, CoordinatorInv
  <2>2. run.pc # "off" \/ run.pc = "off"
    OBVIOUS
  <2>. QED BY <2>1, <2>2, BegunLasts, MovesPast
<1>4. HeldOK'
  <2>1. HoldsAnyLease' => HoldsAnyLease /\ lease'.owner = lease.owner
    BY <1>2 DEF HoldsAnyLease, LeaseCalm
  <2>. QED BY <1>2, <2>1 DEF CoordinatorInv, HeldOK
<1>5. CASE run.pc = "off"
  <2>1. RunOK' /\ UsedOK' /\ EndOK'
    BY <1>2, <1>5 DEF RunOK, UsedOK, EndOK, EndPcs, Started, WorkPcs, Finishing
  <2>. QED BY <1>1, <1>2, <1>3, <1>4, <2>1 DEF CoordinatorInv, Moves
<1>6. CASE run.pc # "off"
  <2>1. PICK s \in Sessions : s = S /\ S' = s
    BY <1>2, <1>6 DEF CoordinatorInv, RunOK
  <2>2. Seen(s) /\ RunOK /\ UsedOK /\ EndOK
    BY <1>6, <2>1 DEF CoordinatorInv, RunOK
  <2>3. /\ Seen(s)' /\ (Ended(s) => Ended(s)')
        /\ sessions[s].cycles \subseteq sessions'[s].cycles
        /\ run.pc \in Finishing /\ Justified(s) => Justified(s)'
    BY <2>2, JustifiedLasts DEF Lasts, Finishing
  <2>4. /\ Seen(S)' = Seen(s)' /\ Ended(S)' = Ended(s)' /\ Justified(S)' = Justified(s)'
        /\ sessions'[S'] = sessions'[s]
    BY <2>1 DEF Seen, Ended, Justified, OrdersConsumed, Lapsed
  <2>5. RunOK'
    BY <1>2, <2>1, <2>2, <2>3, <2>4 DEF RunOK
  <2>6. UsedOK'
    BY <1>2, <2>1, <2>2, <2>3, <2>4 DEF UsedOK
  <2>7. EndOK'
    BY <1>2, <2>1, <2>2, <2>3, <2>4 DEF EndOK
  <2>. QED BY <1>1, <1>2, <1>3, <1>4, <2>5, <2>6, <2>7 DEF CoordinatorInv, Moves
<1>. QED BY <1>5, <1>6

LEMMA SelfMoves == ASSUME CoordinatorInv, UNCHANGED run PROVE Moves(run.pc, run.lost)
BY DEF Moves, CoordinatorInv

\* The order RPCs under the claim of the run.
LEMMA RpcStep ==
    ASSUME CoordinatorInv, NEW s \in Sessions, NEW i \in Intents, NEW w \in Owners, i \in Cycles,
           i \in OrderIds, OrderRpc(i, w, s)
    PROVE  /\ [SessionNext]_sessionVars /\ UNCHANGED lease /\ Shrinks
           /\ \A t \in Sessions : Lasts(t)
<1>0. RowsInv
  BY DEF CoordinatorInv, SessionInv
<1>1. CASE /\ \/ CreateIntent(i, w, i, IntentTTL) \/ TakeClaim(i, w) \/ ExpireOrphan(i)
              \/ RejectLocally(i, w) \/ BeginReconcile(i, w) \/ MarkUnknown(i, w, NoOrder)
              \/ \E target \in {"SUBMITTED", "FILLED"} : Settle(i, w, target, i)
           /\ UNCHANGED sessions
  <2>1. IntentTTL \in 0..IntentTTL
    BY IntentConstants
  <2>2. Create(i, w) \/ Claim(i, w) \/ AdvanceOutsideGate(i, w)
    <3>1. CASE CreateIntent(i, w, i, IntentTTL)
      BY <2>1, <3>1 DEF Create
    <3>2. CASE TakeClaim(i, w) \/ ExpireOrphan(i)
      BY <3>2 DEF Claim
    <3>3. CASE RejectLocally(i, w) \/ BeginReconcile(i, w) \/ MarkUnknown(i, w, NoOrder)
      BY <3>3 DEF AdvanceOutsideGate
    <3>4. CASE \E target \in {"SUBMITTED", "FILLED"} : Settle(i, w, target, i)
      BY <3>4 DEF AdvanceOutsideGate, Terminal
    <3>. QED BY <1>1, <3>1, <3>2, <3>3, <3>4
  <2>3. UNCHANGED lease
    BY <1>1 DEF CreateIntent, TakeClaim, ExpireOrphan, RejectLocally, BeginReconcile, MarkUnknown,
       Settle, Write, leaseVars
  <2>. QED BY <1>1, <2>2, <2>3, SameCalm DEF SessionNext, Shrinks, Calm
<1>2. CASE GateKill(s, i, w)
  BY <1>0, <1>2, EndCalm, CallShrinks DEF Calm, SessionNext, Gate, GateKill, intentVars, leaseVars
<1>3. CASE GateReserve(s, i, w)
  <2>0. sessions \in [Sessions -> Session]
    BY <1>0 DEF RowsInv
  <2>1. ReservedRow(s, i).status = sessions[s].status /\ ReservedRow(s, i).cycles = sessions[s].cycles
    BY <2>0 DEF ReservedRow, Session
  <2>2. \A t \in Sessions : Lasts(t)
    BY <1>3, <2>0, <2>1 DEF GateReserve, Lasts, Seen, Ended
  <2>3. UNCHANGED lease /\ SessionNext
    BY <1>3 DEF GateReserve, SessionNext, Gate, intentVars, leaseVars
  <2>. QED BY <1>0, <1>3, <2>2, <2>3, CallShrinks
<1>4. CASE GateSubmit(s, i, w, 1)
  <2>1. UNCHANGED <<sessions, lease>>
    BY <1>4 DEF GateSubmit, Fence, Write, leaseVars
  <2>2. SessionNext
    <3>1. 1 \in 0..1
      OBVIOUS
    <3>. QED BY <1>4, <3>1 DEF SessionNext, Gate
  <2>. QED BY <2>1, <2>2, SameCalm DEF Calm, Shrinks
<1>. QED BY <1>1, <1>2, <1>3, <1>4 DEF OrderRpc

LEMMA DispatchRpcStep == ASSUME CoordinatorInv, DispatchRpc PROVE StepOK
<1>0. run.pc = "dispatch" /\ UNCHANGED <<run, authorized, begun>> /\ OrderRpc(I, W, S)
  BY DEF DispatchRpc, Is
<1>1. RunOK /\ run.pc # "off" /\ run.pc \in Ordering
  BY <1>0 DEF CoordinatorInv, Ordering
<1>2. S \in Sessions /\ I \in Intents /\ W \in Owners /\ C \in Cycles
  BY <1>1, RunFits DEF RunOK, I
<1>3. PICK s \in Sessions, i \in Intents, w \in Owners : s = S /\ i = I /\ w = W
  BY <1>2
<1>4. i \in Cycles /\ i \in OrderIds
  BY <1>2, <1>3, CoordinatorConstants DEF I
<1>5. OrderRpc(i, w, s)
  BY <1>0, <1>3
<1>6. /\ [SessionNext]_sessionVars /\ UNCHANGED lease /\ Shrinks
      /\ \A t \in Sessions : Lasts(t)
  BY <1>4, <1>5, RpcStep
<1>7. authorized' \in BOOLEAN
  BY <1>0 DEF CoordinatorInv
<1>8. Moves(run.pc, run.lost)
  BY <1>0, SelfMoves
<1>9. LeaseCalm
  BY <1>6, LeaseSame
<1>. QED BY <1>0, <1>6, <1>7, <1>8, <1>9, Stays DEF StepOK

LEMMA AroundStep == ASSUME CoordinatorInv, Operator \/ Tick PROVE StepOK
<1>0. RowsInv /\ authorized \in BOOLEAN
  BY DEF CoordinatorInv, SessionInv
<1>1. CASE Operator /\ UNCHANGED sessionVars
  <2>1. UNCHANGED <<run, begun, sessions, lease>> /\ authorized' \in BOOLEAN
    BY <1>0, <1>1 DEF Operator, sessionVars, intentVars, leaseVars
  <2>2. \A s \in Sessions : Calm(s)
    BY <2>1, SameCalm
  <2>. QED BY <1>1, <2>1, <2>2, SelfMoves, LeaseSame, Stays DEF StepOK, Shrinks, Calm
<1>2. ASSUME NEW t \in Sessions, CreateSession(t) \/ Activate(t) \/ Kill(t), UNCHANGED <<run, authorized, begun>>
      PROVE  StepOK
  <2>1. UNCHANGED lease /\ authorized' \in BOOLEAN
    BY <1>0, <1>2 DEF CreateSession, Activate, Kill, intentVars, leaseVars
  <2>2. \A s \in Sessions : Calm(s)
    BY <1>0, <1>2, EndCalm, ActivateCalm
  <2>3. Shrinks
    BY <1>0, <1>2, CallShrinks
  <2>4. SessionNext
    BY <1>2 DEF SessionNext, SessionControl
  <2>. QED BY <1>2, <2>1, <2>2, <2>3, <2>4, SelfMoves, LeaseSame, Stays DEF StepOK, Calm
<1>3. CASE Tick
  <2>. DEFINE q == [run EXCEPT !.timer = Elapse(@)]
  <2>1. run \in Run /\ run.timer \in Nat
    BY DEF CoordinatorInv, Run
  <2>2. /\ q \in Run /\ q.pc = run.pc /\ q.lost = run.lost /\ q.session = run.session
        /\ q.start = run.start /\ q.seq = run.seq /\ q.known = run.known
    BY <2>1 DEF Run, Elapse
  <2>3. run' = q /\ SessionTick /\ UNCHANGED <<authorized, begun>>
    BY <1>3 DEF Tick
  <2>. HIDE DEF q
  <2>4. Moves(run.pc, run.lost)
    BY <2>2, <2>3 DEF Moves
  <2>5. LeaseCalm /\ Shrinks /\ \A s \in Sessions : Calm(s)
    BY <1>0, <2>3, LeaseTicks, TickShrinks, TickCalm DEF SessionTick, IntentTick
  <2>6. [SessionNext]_sessionVars /\ authorized' \in BOOLEAN
    BY <1>0, <2>3 DEF SessionNext
  <2>. QED BY <2>3, <2>4, <2>5, <2>6, Stays DEF StepOK, Calm
<1>. QED BY <1>1, <1>2, <1>3 DEF Operator

\* The loop goes to the next sequence number, or to its end: the cycle behind it is used.
LEMMA NextGoes ==
    ASSUME CoordinatorInv, [SessionNext]_sessionVars, run.pc \notin EndPcs \cup Holding \cup Leaving,
           NEW s \in Sessions, run.session = s, NextSequence,
           UNCHANGED <<authorized, begun>>, Calm(s), Ages, LeaseCalm,
           Ended(s)' \/ C \in sessions[s].cycles
    PROVE  CoordinatorInv'
<1>1. S = s /\ Seen(s) /\ RunOK /\ UsedOK /\ run.pc # "off" /\ C = <<s, run.seq>>
  BY DEF CoordinatorInv, RunOK, S, C, EndPcs
<1>2. /\ Seen(s)' /\ (Ended(s) => Ended(s)') /\ sessions'[s].cycles = sessions[s].cycles
      /\ authorized' \in BOOLEAN /\ SessionInv' /\ OwnCycles'
  BY <1>1, SessionNextInv DEF Calm, Lasts, CoordinatorInv, OwnCycles, Ages, Shrinks
<1>3. run.seq \in 1..Limits[s].cycles /\ Limits[s].cycles \in 1..3 /\ run.seq \in 1..3
  BY <1>1, RunFits DEF RunOK
<1>4. Ended(s)' \/ \A k \in 1..3 : k < run.seq + 1 => <<s, k>> \in sessions[s].cycles
  <2>1. Ended(s) \/ \A k \in 1..3 : k < run.seq => <<s, k>> \in sessions[s].cycles
    BY <1>1 DEF UsedOK
  <2>2. \A k \in 1..3 : k < run.seq + 1 => k < run.seq \/ k = run.seq
    BY <1>3
  <2>. QED BY <1>1, <1>2, <2>1, <2>2
<1>5. CASE ~(run.seq < Limits[s].cycles)
  <2>1. GoTo("final") /\ "final" \in AllPcs
    BY <1>1, <1>5 DEF NextSequence, AllPcs, OutsidePcs
  <2>2. Moves("final", run.lost)
    BY <2>1, GoToMoves DEF CoordinatorInv
  <2>3. Ended(s)' \/ \A k \in 1..Limits[s].cycles : <<s, k>> \in sessions[s].cycles
    <3>1. \A k \in 1..Limits[s].cycles : k \in 1..3 /\ k < run.seq + 1
      BY <1>3, <1>5
    <3>. QED BY <1>4, <3>1
  <2>4. Ended(s)' \/ Cardinality(sessions[s].cycles) = Limits[s].cycles
    BY <2>3, AllUsed DEF CoordinatorInv
  <2>5. Justified(s)'
    BY <1>2, <2>4 DEF Justified
  <2>6. Arrival(s, "final", run.lost) /\ Keeps("final", run.lost)
    BY <2>5 DEF Arrival, Keeps, Before, Ordering, Unused, Started, WorkPcs
  <2>. QED BY <1>2, <2>2, <2>6, Goes
<1>6. CASE run.seq < Limits[s].cycles
  <2>. DEFINE q == [run EXCEPT !.pc = "look", !.seq = @ + 1]
  <2>1. run' = q
    BY <1>1, <1>6 DEF NextSequence
  <2>2. run.seq + 1 \in 1..Limits[s].cycles /\ run.seq + 1 \in 1..3
    BY <1>3, <1>6
  <2>3. /\ q \in Run /\ q.pc = "look" /\ q.lost = run.lost /\ q.session = s
        /\ q.start = run.start /\ q.seq = run.seq + 1 /\ q.known = run.known
    BY <2>2 DEF CoordinatorInv, Run, OutsidePcs
  <2>. HIDE DEF q
  <2>4. /\ run' \in Run /\ run'.pc = "look" /\ S' = s /\ run'.start = run.start
        /\ run'.seq = run.seq + 1 /\ run'.known = run.known
    BY <2>1, <2>3 DEF S
  <2>5. RunOK'
    BY <1>1, <1>2, <2>2, <2>4 DEF RunOK, Seen, Ordering, Unused
  <2>6. UsedOK'
    BY <1>2, <1>4, <2>4 DEF UsedOK, Ended, Started, WorkPcs
  <2>7. EndOK'
    BY <2>4 DEF EndOK, Finishing
  <2>8. HeldOK'
    <3>1. ~HoldsAnyLease
      BY <1>1 DEF CoordinatorInv, HeldOK, EndPcs
    <3>. QED BY <2>4, <3>1 DEF HoldsAnyLease, LeaseCalm, HeldOK
  <2>9. PastOwners'
    BY <2>4, PastLasts DEF LeaseCalm, Run, CoordinatorInv
  <2>10. BegunOK'
    <3>1. run'.session = run.session
      BY <1>1, <2>4 DEF S
    <3>2. \A k \in Int : k < run.seq \/ k = run.seq => k < run.seq + 1
      BY <1>3
    <3>3. \A t \in Sessions : \A k \in 1..Limits[t].cycles : Past(t, k) => Past(t, k)'
      BY <1>1, <2>4, <3>1, <3>2 DEF Past
    <3>. QED BY <3>3, BegunLasts DEF Ages
  <2>. QED BY <1>2, <2>4, <2>5, <2>6, <2>7, <2>8, <2>9, <2>10 DEF CoordinatorInv
<1>. QED BY <1>5, <1>6

LEMMA EndCycleStep == ASSUME CoordinatorInv, EndCycle PROVE StepOK
<1>0. run.pc = "end" /\ run.pc \notin EndPcs \cup Holding \cup Leaving
  BY DEF EndCycle, Is, EndPcs, Holding, Leaving, WorkPcs, CleanupPcs
<1>1. PICK s \in Sessions : s = S /\ run.session = s
  BY <1>0, RunSession
<1>2. C \in Cycles /\ Seen(s) /\ (Ended(s) \/ C \in sessions[s].cycles)
  BY <1>0, <1>1, RunFits DEF CoordinatorInv, RunOK, UsedOK, Started, EndPcs
<1>3. PICK c \in Cycles : c = C
  BY <1>2
<1>4. SessionCall(s) /\ UNCHANGED <<authorized, begun>>
  BY <1>1, <1>3 DEF EndCycle, SessionCall
<1>5. [SessionNext]_sessionVars /\ Calm(s) /\ Ages /\ LeaseCalm
  BY <1>2, <1>4, CallCalm
<1>6. CASE NextSequence
  <2>1. Ended(s)' \/ C \in sessions[s].cycles
    BY <1>2, <1>5 DEF Calm, Lasts
  <2>. QED BY <1>0, <1>1, <1>4, <1>5, <1>6, <2>1, NextGoes DEF StepOK
<1>7. CASE Exception
  <2>1. authorized' \in BOOLEAN
    BY <1>4 DEF CoordinatorInv
  <2>. QED BY <1>0, <1>1, <1>4, <1>5, <1>7, <2>1, ExceptionGoes DEF StepOK
<1>. QED BY <1>6, <1>7 DEF EndCycle

\* A step of the run by itself.
LEMMA Alone ==
    ASSUME CoordinatorInv, run.pc \notin EndPcs, NEW s \in Sessions, run.session = s, Only(sessionVars)
    PROVE  /\ [SessionNext]_sessionVars /\ UNCHANGED <<sessions, lease, intents, authorized, begun>>
           /\ authorized' \in BOOLEAN /\ Calm(s) /\ Ages /\ LeaseCalm /\ SessionCall(s)
           /\ S = s /\ Seen(s) /\ RunOK /\ EndOK
<1>1. UNCHANGED <<sessionVars, sessions, lease, intents, authorized, begun>>
  BY DEF Only, sessionVars, intentVars, leaseVars
<1>. QED BY <1>1, SameCalm, LeaseSame DEF Ages, Shrinks, Calm, CoordinatorInv, SessionCall, RunOK, S, EndPcs

LEMMA ScanStep == ASSUME CoordinatorInv, Scan PROVE StepOK
<1>0. run.pc = "scan" /\ run.pc \notin EndPcs \cup Holding \cup Leaving /\ Only(sessionVars)
  BY DEF Scan, Is, EndPcs, Holding, Leaving, WorkPcs, CleanupPcs
<1>1. PICK s \in Sessions : s = S /\ run.session = s
  BY <1>0, RunSession
<1>2. /\ [SessionNext]_sessionVars /\ UNCHANGED <<sessions, lease, intents, authorized, begun>>
      /\ authorized' \in BOOLEAN /\ Calm(s) /\ Ages /\ LeaseCalm /\ Seen(s) /\ RunOK
  BY <1>0, <1>1, Alone
<1>3. CASE AfterScan # "kill" /\ Used /\ NextSequence
  <2>1. NextSequence /\ C \in sessions[s].cycles
    BY <1>1, <1>3 DEF Used
  <2>. QED BY <1>0, <1>1, <1>2, <2>1, NextGoes DEF StepOK
<1>4. CASE ~(AfterScan # "kill" /\ Used) /\ GoTo(AfterScan)
  <2>1. PICK pc \in {"kill", "finish", "final", "wait", "acquire"} :
           /\ GoTo(pc)
           /\ pc = "finish" => OrdersConsumed(s) >= Limits[s].total
           /\ pc = "final" => sessions[s].ttl = 0
           /\ pc # "kill" => C \notin sessions[s].cycles
    BY <1>1, <1>4 DEF AfterScan, Used
  <2>2. Moves(pc, run.lost)
    BY <2>1, GoToMoves DEF CoordinatorInv, AllPcs, OutsidePcs, TryPcs
  <2>3. Keeps(pc, run.lost)
    BY <1>0 DEF Keeps
  <2>4. pc \in {"finish", "final"} => Justified(s)'
    BY <1>2, <2>1, JustifiedLasts DEF Justified, Ended, Lapsed
  <2>5. pc # "kill" => C \notin run.known
    BY <1>0, <1>1, <1>2, <2>1 DEF RunOK, EndPcs
  <2>6. Arrival(s, pc, run.lost)
    BY <1>0, <2>4, <2>5 DEF Arrival, Before, Ordering, Unused, Started, WorkPcs, Finishing
  <2>. QED BY <1>0, <1>1, <1>2, <2>2, <2>3, <2>6, Goes DEF StepOK
<1>5. CASE Lose("final", {"clock"})
  <2>1. Moves("final", run.lost \cup {"clock"})
    BY <1>5, LosesMoves DEF CoordinatorInv, AllPcs, OutsidePcs, Losses
  <2>2. Keeps("final", run.lost \cup {"clock"})
    BY <1>0 DEF Keeps
  <2>3. Arrival(s, "final", run.lost \cup {"clock"})
    BY DEF Arrival, Before, Ordering, Unused, Started, WorkPcs, Finishing, Excused
  <2>. QED BY <1>0, <1>1, <1>2, <2>1, <2>2, <2>3, Goes DEF StepOK
<1>. QED BY <1>3, <1>4, <1>5 DEF Scan

LEMMA WaitStep == ASSUME CoordinatorInv, Wait PROVE StepOK
<1>0. /\ run.pc = "wait" /\ run.pc \notin EndPcs \cup Holding \cup Leaving /\ Inspect(S)
      /\ UNCHANGED <<authorized, begun>>
  BY DEF Wait, Is, EndPcs, Holding, Leaving, WorkPcs, CleanupPcs
<1>1. PICK s \in Sessions : s = S /\ run.session = s
  BY <1>0, RunSession
<1>2. Seen(s) /\ RunOK /\ SessionCall(s) /\ authorized' \in BOOLEAN
  BY <1>0, <1>1 DEF CoordinatorInv, RunOK, SessionCall, EndPcs
<1>3. /\ [SessionNext]_sessionVars /\ Calm(s) /\ Ages /\ LeaseCalm
      /\ ~Running(s) => Ended(s)'
  BY <1>2, CallCalm
<1>4. CASE Exception
  BY <1>0, <1>1, <1>2, <1>3, <1>4, ExceptionGoes DEF StepOK
<1>5. CASE run' = [run EXCEPT !.pc = AfterWait, !.timer = Smaller(sessions[S].next, Slice)]
  <2>1. PICK pc \in {"final", "kill", "acquire", "finish", "nap"} :
           /\ pc = AfterWait
           /\ pc = "final" => ~Running(s)
           /\ pc = "finish" => sessions[s].next >= sessions[s].ttl
    BY <1>1 DEF AfterWait, CadenceEnds
  <2>2. PICK timer \in Nat : timer = Smaller(sessions[S].next, Slice)
    <3>1. sessions[s] \in Session
      BY DEF CoordinatorInv, SessionInv, RowsInv
    <3>2. sessions[s].next \in Nat
      BY <3>1, SessionConstants DEF Session
    <3>. QED BY <1>1, <3>2, CoordinatorConstants DEF Smaller
  <2>. DEFINE q == [run EXCEPT !.pc = pc, !.timer = timer]
  <2>3. /\ q \in Run /\ q.pc = pc /\ q.lost = run.lost /\ q.session = run.session
        /\ q.start = run.start /\ q.seq = run.seq /\ q.known = run.known
    BY DEF CoordinatorInv, Run, OutsidePcs, TryPcs
  <2>4. run' = q
    BY <1>5, <2>1, <2>2
  <2>. HIDE DEF q
  <2>5. Moves(pc, run.lost)
    BY <2>3, <2>4 DEF Moves
  <2>6. Keeps(pc, run.lost)
    BY <1>0 DEF Keeps
  <2>7. pc \in {"finish", "final"} => Justified(s)'
    BY <1>2, <1>3, <2>1, JustifiedLasts DEF Justified
  <2>8. C \notin run.known
    BY <1>0, <1>2 DEF RunOK, EndPcs, Unused
  <2>9. Arrival(s, pc, run.lost)
    BY <1>0, <2>7, <2>8 DEF Arrival, Before, Ordering, Unused, Started, WorkPcs, Finishing
  <2>. QED BY <1>0, <1>1, <1>2, <1>3, <2>5, <2>6, <2>9, Goes DEF StepOK
<1>. QED BY <1>4, <1>5 DEF Wait

LEMMA SelfSteps ==
    ASSUME CoordinatorInv,
           WakeUp \/ AcquireRefused \/ Refresh \/ DispatchEnds \/ TimesOut \/ Fails \/ Crash
    PROVE  StepOK
<1>0. run.pc \notin EndPcs /\ Only(sessionVars)
  BY DEF WakeUp, AcquireRefused, Refresh, DispatchEnds, TimesOut, Fails, Crash, Exception, Cancelled, Is,
     EndPcs, WorkPcs, OutsidePcs, TryPcs, CleanupPcs
<1>1. PICK s \in Sessions : s = S /\ run.session = s
  BY <1>0, RunSession
<1>2. /\ [SessionNext]_sessionVars /\ UNCHANGED <<sessions, lease, intents, authorized, begun>>
      /\ authorized' \in BOOLEAN /\ Calm(s) /\ Ages /\ LeaseCalm /\ SessionCall(s) /\ RunOK
  BY <1>0, <1>1, Alone
<1>. USE DEF AllPcs, OutsidePcs, TryPcs, WorkPcs, CleanupPcs, EndPcs, Holding, Leaving, Ordering, Started,
         Unused, Before, Finishing
<1>3. CASE Fails
  BY <1>0, <1>1, <1>2, <1>3, ExceptionGoes DEF Fails, StepOK
<1>4. ASSUME NEW pc \in {"wait", "kill", "failed", "halt", "complete", "dispatch", "reread", "denied", "crashed"},
             GoTo(pc), Keeps(pc, run.lost), Arrival(s, pc, run.lost)
      PROVE  StepOK
  <2>1. Moves(pc, run.lost)
    BY <1>4, GoToMoves DEF CoordinatorInv
  <2>. QED BY <1>0, <1>1, <1>2, <1>4, <2>1, Goes DEF StepOK
<1>5. CASE WakeUp
  <2>1. PICK pc \in {"wait", "kill"} : GoTo(pc) /\ run.pc = "nap"
    BY <1>5 DEF WakeUp, Is
  <2>2. C \notin run.known
    BY <1>2, <2>1 DEF RunOK
  <2>. QED BY <1>4, <2>1, <2>2 DEF Keeps, Arrival
<1>6. CASE AcquireRefused
  BY <1>4, <1>6 DEF AcquireRefused, Is, Keeps, Arrival
<1>7. CASE Refresh
  <2>1. PICK pc \in {"halt", "complete", "dispatch"} :
           GoTo(pc) /\ run.pc = "refresh" /\ (pc = "dispatch" => C \in Intents)
    BY <1>7 DEF Refresh, Is
  <2>. QED BY <1>4, <2>1 DEF Keeps, Arrival
<1>8. CASE DispatchEnds
  <2>1. PICK pc \in {"reread", "denied"} : GoTo(pc) /\ run.pc = "dispatch"
    BY <1>8 DEF DispatchEnds, Is
  <2>2. C \in Intents
    BY <1>2, <2>1 DEF RunOK
  <2>. QED BY <1>4, <2>1, <2>2 DEF Keeps, Arrival
<1>9. CASE TimesOut
  BY <1>4, <1>9 DEF TimesOut, Keeps, Arrival
<1>10. CASE Crash
  BY <1>4, <1>10 DEF Crash, Keeps, Arrival
<1>. QED BY <1>3, <1>5, <1>6, <1>7, <1>8, <1>9, <1>10

\* The releases: the lease of this run is gone afterwards, if it had one.
LEMMA ReleaseSteps ==
    ASSUME CoordinatorInv, Complete \/ Abandon \/ CleanupRelease
    PROVE  StepOK
<1>0. /\ run.pc \in {"complete", "abandon", "denied release", "failed release"} /\ run.pc \notin EndPcs
      /\ UNCHANGED <<intents, sessions, authorized, begun>>
  BY DEF Complete, Abandon, CleanupRelease, Is, EndPcs
<1>1. PICK s \in Sessions : s = S /\ run.session = s
  BY <1>0, RunSession
<1>2. W \in Owners /\ C \in Cycles /\ W = <<run.start, run.seq>>
  BY <1>0, RunFits DEF EndPcs
<1>3. PICK w \in Owners, c \in Cycles : w = W /\ c = C
  BY <1>2
<1>4. ReleaseCompleted(w, c) \/ ReleaseFailed(w) \/ (UNCHANGED leaseVars /\ ~Releasable(w))
  BY <1>3 DEF Complete, Abandon, CleanupRelease
<1>5. [SessionNext]_sessionVars
  <2>1. CASE ReleaseCompleted(w, c) \/ ReleaseFailed(w)
    BY <1>0, <2>1 DEF SessionNext, LeaseStep
  <2>2. CASE UNCHANGED leaseVars
    BY <1>0, <2>2 DEF sessionVars, intentVars
  <2>. QED BY <1>4, <2>1, <2>2
<1>6. LeaseCalm
  BY <1>4, LeaseFreed, LeaseSame DEF ReleaseCompleted, ReleaseFailed, leaseVars
<1>7. run.pc \in Holding /\ run.pc \notin Leaving \cup {"crashed"}
  BY <1>0 DEF Holding, Leaving, WorkPcs, CleanupPcs
<1>8. ASSUME run'.start = run.start PROVE ~HoldsAnyLease'
  <2>1. CASE ReleaseCompleted(w, c) \/ ReleaseFailed(w)
    BY <2>1, LeaseFreed DEF ReleaseCompleted, ReleaseFailed, HoldsAnyLease
  <2>2. CASE UNCHANGED leaseVars /\ ~Releasable(w)
    <3>1. ~HoldsAnyLease
      BY <1>3, <1>7, <2>2 DEF CoordinatorInv, HeldOK, HoldsAnyLease, Releasable
    <3>. QED BY <1>8, <2>2, <3>1 DEF HoldsAnyLease, LeaseLive, leaseVars
  <2>. QED BY <1>4, <2>1, <2>2
<1>9. Seen(s) /\ EndOK /\ Calm(s) /\ Ages /\ authorized' \in BOOLEAN
  BY <1>0, <1>1, SameCalm DEF CoordinatorInv, RunOK, Ages, Shrinks, Calm, EndPcs
<1>10. PICK pc \in {"end", "final", "raised"} :
          /\ Reply(pc)
          /\ pc = "end" => run.pc = "complete"
          /\ pc = "final" => run.pc \in {"abandon", "denied release"}
          /\ pc = "raised" => run.pc = "failed release"
  BY DEF Complete, Abandon, CleanupRelease, Is
<1>11. CASE Exception \/ Cancelled
  BY <1>0, <1>1, <1>5, <1>6, <1>9, <1>11, ExceptionGoes DEF StepOK
<1>12. CASE GoTo(pc)
  <2>1. Moves(pc, run.lost)
    BY <1>12, GoToMoves DEF CoordinatorInv, AllPcs, OutsidePcs, TryPcs, EndPcs
  <2>2. Keeps(pc, run.lost)
    BY <1>8, <2>1 DEF Keeps, Moves
  <2>3. pc \in {"final", "raised"} => Ended(s)' \/ "kill" \in run.lost
    BY <1>1, <1>9, <1>10 DEF EndOK, Calm, Lasts
  <2>4. Arrival(s, pc, run.lost)
    BY <1>10, <2>3 DEF Arrival, Justified, Deserted, Excused, Before, Ordering, Unused, Started, WorkPcs, Finishing
  <2>. QED BY <1>0, <1>1, <1>5, <1>6, <1>9, <2>1, <2>2, <2>4, Goes DEF StepOK
<1>. QED BY <1>10, <1>11, <1>12 DEF Reply

\* The grant: the owner id is of this start.
LEMMA AcquireStep == ASSUME CoordinatorInv, Acquire PROVE StepOK
<1>0. run.pc = "acquire" /\ Grant(W, C) /\ Reply("start") /\ UNCHANGED <<intents, sessions, authorized, begun>>
  BY DEF Acquire, Is
<1>1. PICK s \in Sessions : s = S /\ run.session = s
  BY <1>0, RunSession DEF EndPcs
<1>2. RunOK /\ UsedOK /\ W \in Owners /\ C \in Cycles /\ W = <<run.start, run.seq>> /\ run.seq \in 1..3
  BY <1>0, RunFits DEF CoordinatorInv
<1>3. PICK w \in Owners, c \in Cycles : w = W /\ c = C
  BY <1>2
<1>4. Grant(w, c)
  BY <1>0, <1>3
<1>5. SessionNext
  BY <1>0, <1>4 DEF SessionNext, LeaseStep
<1>6. SessionInv'
  BY <1>5, SessionNextInv DEF CoordinatorInv
<1>7. PICK pc \in {"start", "failed"} : Moves(pc, run.lost)
  <2>1. CASE GoTo("start")
    BY <2>1, GoToMoves DEF CoordinatorInv, AllPcs, TryPcs
  <2>2. CASE Exception \/ Cancelled
    BY <1>0, <2>2, ExceptionThrows DEF CoordinatorInv, Throws, OutsidePcs, CleanupPcs
  <2>. QED BY <1>0, <2>1, <2>2 DEF Reply
<1>8. /\ S' = s /\ C' = c /\ W' = w /\ run'.pc = pc /\ run'.lost = run.lost /\ run' \in Run
      /\ run'.start = run.start /\ run'.seq = run.seq /\ run'.known = run.known
  BY <1>1, <1>3, <1>7 DEF Moves, S, C, W
<1>9. lease'.owner = w
  BY <1>4, LeaseTyped DEF Grant, AttemptOn, Lease
<1>10. RunOK'
  BY <1>0, <1>1, <1>2, <1>3, <1>8 DEF RunOK, Seen, Unused, Ordering
<1>11. UsedOK' /\ EndOK'
  BY <1>0, <1>1, <1>2, <1>3, <1>8 DEF UsedOK, EndOK, Ended, EndPcs, Started, WorkPcs, Finishing
<1>12. HeldOK'
  BY <1>8, <1>9 DEF HeldOK, Holding, CleanupPcs
<1>13. PastOwners'
  <2>1. run.start \in Nat
    BY DEF CoordinatorInv, Run
  <2>2. \A k \in 1..Starts, n \in 1..3 : lease'.owner = <<k, n>> => k = run.start
    BY <1>2, <1>3, <1>9
  <2>. QED BY <1>8, <2>1, <2>2 DEF PastOwners
<1>14. BegunOK'
  <2>1. (\A t \in Sessions : Lasts(t)) /\ run.pc # "off" /\ run.pc \in Before
    BY <1>0, SameCalm DEF Calm, Before, Unused
  <2>. QED BY <1>0, <1>7, <2>1, BegunLasts, MovesPast
<1>15. OwnCycles'
  BY <1>0 DEF CoordinatorInv, OwnCycles
<1>16. authorized' \in BOOLEAN /\ begun' \in [Cycles -> Nat]
  BY <1>0 DEF CoordinatorInv
<1>. QED BY <1>5, <1>6, <1>8, <1>10, <1>11, <1>12, <1>13, <1>14, <1>15, <1>16 DEF StepOK, CoordinatorInv

\* CYCLE_START: whatever is answered, the cycle is used or the session has ended.
LEMMA StartCallUses ==
    ASSUME CoordinatorInv, NEW s \in Sessions, NEW c \in {s} \X (1..Limits[s].cycles), c \in Cycles,
           Seen(s), StartCall(s, c)
    PROVE  /\ [SessionNext]_sessionVars /\ UNCHANGED <<lease, intents>>
           /\ (\A t \in Sessions : Lasts(t)) /\ OwnCycles'
           /\ Ended(s)' \/ c \in sessions'[s].cycles
<1>0. sessions \in [Sessions -> Session] /\ OwnCycles
  BY DEF CoordinatorInv, SessionInv, RowsInv
<1>1. CASE CycleStart(s, c)
  <2>1. SessionNext
    BY <1>1 DEF SessionNext, SessionControl
  <2>2. /\ sessions'[s].cycles = sessions[s].cycles \cup {c}
        /\ sessions'[s].status = sessions[s].status
        /\ \A t \in Sessions \ {s} : sessions'[t] = sessions[t]
    BY <1>0, <1>1 DEF CycleStart, Session
  <2>. QED BY <1>0, <1>1, <2>1, <2>2 DEF Lasts, Seen, Ended, OwnCycles, CycleStart, intentVars, leaseVars
<1>2. CASE ExpireSession(s)
  <2>1. SessionCall(s)
    BY <1>2 DEF SessionCall
  <2>2. sessions'[s].status = "EXPIRED"
    BY <1>0, <1>2 DEF ExpireSession, Expired, Session
  <2>. QED BY <1>0, <2>1, <2>2, CallCalm DEF OwnCycles, Ages, Shrinks, Ended, Open
<1>3. CASE (Ended(s) \/ (~Lapsed(s) /\ c \in sessions[s].cycles)) /\ UNCHANGED sessionVars
  <2>1. SessionCall(s) /\ UNCHANGED sessions
    BY <1>3 DEF SessionCall, sessionVars
  <2>. QED BY <1>0, <1>3, <2>1, CallCalm DEF OwnCycles, Ages, Shrinks, Ended
<1>. QED BY <1>1, <1>2, <1>3 DEF StartCall

LEMMA StartCycleStep == ASSUME CoordinatorInv, StartCycle PROVE StepOK
<1>0. run.pc = "start" /\ run.pc \notin EndPcs /\ StartCall(S, C) /\ authorized' \in BOOLEAN
  BY DEF StartCycle, Is, EndPcs, CoordinatorInv
<1>1. PICK s \in Sessions : s = S /\ run.session = s
  BY <1>0, RunSession
<1>2. /\ RunOK /\ UsedOK /\ HeldOK /\ BegunOK /\ C \in Cycles /\ C = <<s, run.seq>> /\ Seen(s)
      /\ run.seq \in 1..Limits[s].cycles
  BY <1>0, <1>1, RunFits DEF CoordinatorInv, RunOK, EndPcs
<1>3. PICK c \in Cycles : c = C
  BY <1>2
<1>4. c \in {s} \X (1..Limits[s].cycles)
  BY <1>2, <1>3
<1>5. /\ [SessionNext]_sessionVars /\ UNCHANGED <<lease, intents>>
      /\ (\A t \in Sessions : Lasts(t)) /\ OwnCycles'
      /\ Ended(s)' \/ c \in sessions'[s].cycles
  BY <1>0, <1>1, <1>2, <1>3, <1>4, StartCallUses
<1>6. SessionInv'
  BY <1>5, SessionNextInv DEF CoordinatorInv
<1>7. PICK pc \in {"refresh", "failed"} :
         /\ Moves(pc, run.lost)
         /\ \/ begun' = [begun EXCEPT ![c] = @ + 1]
            \/ UNCHANGED begun
  <2>1. CASE Exception /\ UNCHANGED begun
    BY <1>0, <2>1, ExceptionThrows DEF CoordinatorInv, Throws, OutsidePcs, CleanupPcs
  <2>2. CASE /\ run' = [run EXCEPT !.pc = "refresh", !.timer = WorkTTL]
             /\ begun' = [begun EXCEPT ![C] = @ + 1]
    <3>. DEFINE q == [run EXCEPT !.pc = "refresh", !.timer = WorkTTL]
    <3>1. /\ q \in Run /\ q.pc = "refresh" /\ q.lost = run.lost /\ q.session = run.session
          /\ q.start = run.start /\ q.seq = run.seq /\ q.known = run.known
      BY CoordinatorConstants DEF CoordinatorInv, Run, TryPcs, WorkPcs
    <3>2. run' = q
      BY <2>2
    <3>. HIDE DEF q
    <3>. QED BY <1>3, <2>2, <3>1, <3>2 DEF Moves
  <2>. QED BY <2>1, <2>2 DEF StartCycle
<1>8. /\ S' = s /\ C' = C /\ W' = W /\ run'.pc = pc /\ run'.lost = run.lost /\ run' \in Run
      /\ run'.start = run.start /\ run'.seq = run.seq /\ run'.known = run.known
  BY <1>1, <1>7 DEF Moves, S, C, W
<1>9. /\ Seen(s)' /\ (Ended(s) => Ended(s)') /\ sessions[s].cycles \subseteq sessions'[s].cycles
  BY <1>2, <1>5 DEF Lasts
<1>10. RunOK'
  BY <1>0, <1>1, <1>2, <1>8, <1>9 DEF RunOK, Seen, Unused, Ordering
<1>11. UsedOK'
  BY <1>0, <1>1, <1>2, <1>3, <1>5, <1>8, <1>9 DEF UsedOK, Ended
<1>12. EndOK'
  BY <1>8 DEF EndOK, Finishing
<1>13. HeldOK'
  <2>1. HoldsAnyLease' => HoldsAnyLease
    BY <1>5, <1>8 DEF HoldsAnyLease, LeaseLive
  <2>2. HoldsAnyLease => lease.owner = W
    BY <1>0, <1>2 DEF HeldOK, Leaving
  <2>. QED BY <1>5, <1>8, <2>1, <2>2 DEF HeldOK, Holding, WorkPcs, CleanupPcs
<1>14. PastOwners'
  BY <1>5, <1>8, PastLasts DEF CoordinatorInv, Run
<1>15. begun' \in [Cycles -> Nat]
  BY <1>7 DEF CoordinatorInv
<1>16. BegunOK'
  <2>. SUFFICES ASSUME NEW t \in Sessions, NEW k \in 1..Limits[t].cycles, begun'[<<t, k>>] > 0
                PROVE  /\ Seen(t)'
                       /\ Ended(t)' \/ <<t, k>> \in sessions'[t].cycles
                       /\ Past(t, k)'
    BY DEF BegunOK
  <2>1. CASE <<t, k>> = c
    <3>1. t = s /\ k = run.seq
      BY <1>2, <1>3, <2>1
    <3>2. pc \notin Before
      BY DEF Before, Unused
    <3>. QED BY <1>5, <1>8, <1>9, <2>1, <3>1, <3>2 DEF Past
  <2>2. CASE <<t, k>> # c
    <3>1. begun[<<t, k>>] > 0
      <4>1. <<t, k>> \in {t} \X (1..Limits[t].cycles)
        OBVIOUS
      <4>2. <<t, k>> \in Cycles
        BY <4>1, CoordinatorConstants
      <4>. QED BY <1>7, <2>2, <4>2 DEF CoordinatorInv
    <3>2. /\ Seen(t) /\ Past(t, k)
          /\ Ended(t) \/ <<t, k>> \in sessions[t].cycles
      BY <1>2, <3>1 DEF BegunOK
    <3>3. Past(t, k)'
      BY <1>0, <1>7, <3>2, MovesPast DEF Before, Unused
    <3>. QED BY <1>5, <3>2, <3>3 DEF Lasts
  <2>. QED BY <2>1, <2>2
<1>. QED BY <1>0, <1>5, <1>6, <1>8, <1>10, <1>11, <1>12, <1>13, <1>14, <1>15, <1>16
   DEF StepOK, CoordinatorInv

\* The next start of the process: nothing is held in its name yet.
LEMMA StartRunStep ==
    ASSUME CoordinatorInv, NEW s \in Sessions, StartRun(s)
    PROVE  StepOK
<1>. DEFINE q == [pc |-> "enter", session |-> s, start |-> run.start + 1, seq |-> 1, timer |-> 0,
                  known |-> sessions[s].cycles, lost |-> {}]
<1>1. run' = q /\ run.start < Starts /\ run.start \in Nat /\ Has(s, "ACTIVE")
  BY DEF StartRun, CoordinatorInv, Run
<1>2. UNCHANGED <<sessionVars, sessions, lease, intents, authorized, begun>>
  BY DEF StartRun, Only, sessionVars, intentVars, leaseVars
<1>3. sessions[s] \in Session /\ SessionInv' /\ OwnCycles'
  BY <1>2, SessionNextInv DEF CoordinatorInv, SessionInv, RowsInv, OwnCycles
<1>4. run.start + 1 \in 1..Starts /\ run.start + 1 \in 0..Starts
  BY <1>1, CoordinatorConstants
<1>5. q \in Run
  BY <1>3, <1>4 DEF Run, OutsidePcs, Session
<1>6. /\ run'.pc = "enter" /\ run'.session = s /\ S' = s /\ run'.start = run.start + 1 /\ run'.seq = 1
      /\ run'.known = sessions[s].cycles /\ run' \in Run
  BY <1>1, <1>5 DEF S
<1>. HIDE DEF q
<1>7. Seen(s)'
  BY <1>1, <1>2 DEF Seen, Has
<1>8. 1 \in 1..Limits[s].cycles
  BY SessionConstants DEF Limit
<1>9. RunOK'
  BY <1>2, <1>4, <1>6, <1>7, <1>8 DEF RunOK, Seen, Ordering, Unused
<1>10. UsedOK' /\ EndOK'
  <2>1. \A k \in 1..3 : ~(k < 1)
    OBVIOUS
  <2>. QED BY <1>6, <2>1 DEF UsedOK, EndOK, Started, WorkPcs, Finishing
<1>11. HeldOK'
  <2>1. \A n \in 1..3 : lease.owner # <<run.start + 1, n>>
    BY <1>1, <1>4 DEF CoordinatorInv, PastOwners
  <2>. QED BY <1>2, <1>6, <2>1 DEF HeldOK, HoldsAnyLease
<1>12. PastOwners'
  BY <1>1, <1>2, <1>6, PastLasts
<1>13. BegunOK'
  <2>1. ~Ended(s)
    BY <1>1 DEF Has, Ended, Open
  <2>. QED BY <1>2, <1>6, <2>1 DEF BegunOK, Past, CoordinatorInv, Seen, Ended
<1>14. authorized' \in BOOLEAN /\ begun' \in [Cycles -> Nat]
  BY <1>2 DEF CoordinatorInv
<1>. QED BY <1>2, <1>3, <1>6, <1>9, <1>10, <1>11, <1>12, <1>13, <1>14 DEF StepOK, CoordinatorInv

-----------------------------------------------------------------------------
(* The invariant, and what follows from it.                                *)

LEMMA CoordinatorInitInv == CoordinatorInit => CoordinatorInv
<1>. SUFFICES ASSUME CoordinatorInit PROVE CoordinatorInv
  OBVIOUS
<1>1. SessionInv /\ sessions = [s \in Sessions |-> NoSession]
  BY SessionInitInv DEF CoordinatorInit, SessionInit
<1>2. lease.owner = NoOwner /\ lease.ttl = 0 /\ lease.attempts = [c \in Cycles |-> 0]
  BY DEF CoordinatorInit, SessionInit, IntentInit, LeaseInit
<1>3. /\ run.pc = "off" /\ run.session = Off /\ run.start = 0 /\ run.seq = 1 /\ run.timer = 0
      /\ run.known = {} /\ run.lost = {} /\ begun = [c \in Cycles |-> 0] /\ authorized = TRUE
      /\ DOMAIN run = {"pc", "session", "start", "seq", "timer", "known", "lost"}
  BY DEF CoordinatorInit
<1>4. run \in Run
  <2>1. 0 \in 0..Starts
    BY CoordinatorConstants
  <2>. QED BY <2>1 DEF CoordinatorInit, Run, EndPcs
<1>5. OwnCycles
  BY <1>1 DEF OwnCycles, NoSession
<1>6. RunOK /\ UsedOK /\ EndOK
  BY <1>3 DEF RunOK, UsedOK, EndOK, EndPcs, Started, WorkPcs, Finishing
<1>7. HeldOK
  BY <1>2 DEF HeldOK, HoldsAnyLease, LeaseLive
<1>8. PastOwners
  <2>1. \A k \in 1..Starts, n \in 1..3 : <<k, n>> # NoOwner
    BY CoordinatorConstants, LeaseConstants
  <2>. QED BY <1>2, <2>1 DEF PastOwners
<1>9. BegunOK
  <2>1. \A s \in Sessions : \A k \in 1..Limits[s].cycles : begun[<<s, k>>] = 0
    <3>. SUFFICES ASSUME NEW s \in Sessions, NEW k \in 1..Limits[s].cycles PROVE begun[<<s, k>>] = 0
      OBVIOUS
    <3>1. <<s, k>> \in {s} \X (1..Limits[s].cycles)
      OBVIOUS
    <3>2. <<s, k>> \in Cycles
      BY <3>1, CoordinatorConstants
    <3>. QED BY <1>3, <3>2
  <2>. QED BY <2>1 DEF BegunOK
<1>. QED BY <1>1, <1>3, <1>4, <1>5, <1>6, <1>7, <1>8, <1>9 DEF CoordinatorInv

LEMMA CoordinatorStep == ASSUME CoordinatorInv, [CoordinatorNext]_coordinatorVars PROVE StepOK
<1>1. CASE UNCHANGED coordinatorVars
  <2>1. UNCHANGED <<sessionVars, run, authorized, begun, sessions, lease, intents>>
    BY <1>1 DEF coordinatorVars, sessionVars, intentVars, leaseVars
  <2>2. (\A s \in Sessions : Calm(s)) /\ LeaseCalm /\ Shrinks /\ authorized' \in BOOLEAN
    BY <2>1, SameCalm, LeaseSame DEF Shrinks, CoordinatorInv
  <2>. QED BY <2>1, <2>2, SelfMoves, Stays DEF StepOK, Calm
<1>2. CASE RunStep
  BY <1>2, ControlSteps, WorkSteps, ScanStep, WaitStep, SelfSteps, ReleaseSteps, AcquireStep,
     StartCycleStep, EndCycleStep, DispatchRpcStep DEF RunStep
<1>3. CASE Crash
  BY <1>3, SelfSteps
<1>4. CASE \E s \in Sessions : StartRun(s)
  BY <1>4, StartRunStep
<1>5. CASE Operator \/ Tick
  BY <1>5, AroundStep
<1>. QED BY <1>1, <1>2, <1>3, <1>4, <1>5 DEF CoordinatorNext

LEMMA CoordinatorAlways == CoordinatorSpec => []CoordinatorInv
<1>1. CoordinatorInv /\ [CoordinatorNext]_coordinatorVars => CoordinatorInv'
  BY CoordinatorStep DEF StepOK
<1>. QED BY <1>1, CoordinatorInitInv, PTL DEF CoordinatorSpec

\* Every reachable run, and every reachable row, is well typed.
THEOREM CoordinatorTypeCorrect == CoordinatorSpec => []CoordinatorTypeOK
<1>1. CoordinatorInv => CoordinatorTypeOK
  BY DEF CoordinatorInv, CoordinatorTypeOK, SessionInv, RowsInv, IntentInv, LeaseInv, IntentTypeOK,
     SessionTypeOK
<1>. QED BY <1>1, CoordinatorAlways, PTL

\* The coordinator is a client of the session RPCs: what holds of the sessions, the
\* intents and the lease under any client holds under its runs, crashes included.
THEOREM CoordinatorImplementsSessions == CoordinatorSpec => SessionSpec
<1>1. CoordinatorInit => SessionInit
  BY DEF CoordinatorInit
<1>2. CoordinatorInv /\ [CoordinatorNext]_coordinatorVars => [SessionNext]_sessionVars
  BY CoordinatorStep DEF StepOK
<1>. QED BY <1>1, <1>2, CoordinatorAlways, PTL DEF CoordinatorSpec, SessionSpec

\* A run that is over holds no lease and has ended its session, but for a cleanup
\* call that failed or that a cancellation cut short.
THEOREM CleanEnds == CoordinatorSpec => []CleanEnd
<1>1. CoordinatorInv => CleanEnd
  BY DEF CoordinatorInv, CleanEnd, HeldOK, EndOK, Holding, WorkPcs, CleanupPcs, Unreleased, Deserted
<1>. QED BY <1>1, CoordinatorAlways, PTL

LEMMA OnlyStartBegins ==
    ASSUME [CoordinatorNext]_coordinatorVars, ~StartCycle PROVE UNCHANGED begun
BY DEF CoordinatorNext, RunStep, Enter, Refuse, Look, Scan, Wait, WakeUp, Stop, Acquire, AcquireRefused,
   Refresh, Halt, DispatchRpc, DispatchEnds, Reread, Report, TimesOut, Complete, EndCycle, Abandon,
   CleanupKill, CleanupRelease, Final, Close, Fails, Crash, StartRun, Operator, Tick, Only,
   coordinatorVars

\* The work of a cycle is begun once in the life of its session, and never by a run that
\* found the cycle used: whatever failed or died, however often the process was started.
THEOREM UsedAreSkipped == CoordinatorSpec => RestartSkipsUsed
<1>. DEFINE Skips(c) == begun'[c] # begun[c] => begun[c] = 0 /\ c \notin run.known
<1>1. ASSUME CoordinatorInv, [CoordinatorNext]_coordinatorVars, NEW c \in Cycles, begun'[c] # begun[c]
      PROVE  begun[c] = 0 /\ c \notin run.known
  <2>1. StartCycle
    BY <1>1, OnlyStartBegins
  <2>2. run.pc = "start" /\ begun' = [begun EXCEPT ![C] = @ + 1]
    BY <1>1, <2>1 DEF StartCycle, Is
  <2>3. c = C /\ begun[c] \in Nat
    BY <1>1, <2>2 DEF CoordinatorInv
  <2>4. C \notin run.known /\ S \in Sessions /\ run.seq \in 1..Limits[S].cycles
    BY <1>1, <2>2 DEF CoordinatorInv, RunOK, Unused
  <2>5. PICK s \in Sessions : s = S
    BY <2>4
  <2>6. ~Past(s, run.seq)
    <3>1. ~(run.seq < run.seq)
      BY <2>4, RunFits, <1>1, <2>2
    <3>. QED BY <2>2, <2>4, <2>5, <3>1 DEF Past, Before, Unused, C, S
  <2>7. ~(begun[<<s, run.seq>>] > 0)
    BY <1>1, <2>4, <2>5, <2>6 DEF CoordinatorInv, BegunOK
  <2>. QED BY <2>3, <2>4, <2>5, <2>7 DEF C
<1>2. CoordinatorInv /\ [CoordinatorNext]_coordinatorVars => [\A c \in Cycles : Skips(c)]_coordinatorVars
  BY <1>1
<1>. QED BY <1>2, CoordinatorAlways, PTL DEF CoordinatorSpec, RestartSkipsUsed

-----------------------------------------------------------------------------
(* Who completes a session.                                                *)

Unfinished == \A s \in Sessions : Has(s, "ACTIVE") => sessions'[s].status # "COMPLETED"

LEMMA SameUnfinished == UNCHANGED sessions => Unfinished
BY DEF Unfinished, Has

\* One row gets a status that is no completion.
LEMMA RowUnfinished ==
    ASSUME RowsInv, NEW t \in Sessions, NEW row, sessions' = [sessions EXCEPT ![t] = row],
           sessions[t].status = "ACTIVE" => row.status # "COMPLETED"
    PROVE  Unfinished
BY DEF RowsInv, Unfinished, Has

LEMMA CallsUnfinished ==
    ASSUME RowsInv, NEW t \in Sessions,
           \/ CreateSession(t) \/ ExpireSession(t) \/ Kill(t) \/ Activate(t)
           \/ \E c \in Cycles : CycleStart(t, c) \/ CycleEnd(t, c)
           \/ \E i \in Intents : GateResult(t, i)
           \/ \E i \in Intents, w \in Owners : GateKill(t, i, w) \/ GateReserve(t, i, w)
    PROVE  Unfinished
<1>0. sessions \in [Sessions -> Session] /\ sessions[t] \in Session
  BY DEF RowsInv
<1>1. KilledRow(sessions[t]).status = "COMPLETED" => sessions[t].status # "ACTIVE"
  BY <1>0 DEF KilledRow, Session, Open
<1>2. CASE Kill(t) \/ \E i \in Intents, w \in Owners : GateKill(t, i, w)
  BY <1>1, <1>2, RowUnfinished DEF Kill, GateKill
<1>3. CASE CreateSession(t)
  BY <1>3, RowUnfinished DEF CreateSession, Has
<1>4. CASE ExpireSession(t)
  BY <1>0, <1>4 DEF ExpireSession, Expired, Unfinished, Has, Session
<1>5. CASE Activate(t)
  BY <1>0, <1>5 DEF Activate, Activated, Expired, Unfinished, Has, Session
<1>6. CASE \E c \in Cycles : CycleStart(t, c) \/ CycleEnd(t, c)
  BY <1>0, <1>6 DEF CycleStart, CycleEnd, Unfinished, Has, Session
<1>7. ASSUME NEW i \in Intents, GateResult(t, i) PROVE Unfinished
  <2>. DEFINE counted == [sessions[t] EXCEPT !.failed = sessions[t].failed \cup {i}]
  <2>1. counted.status = sessions[t].status
    BY <1>0 DEF Session
  <2>2. KilledRow(counted).status = "COMPLETED" => sessions[t].status # "ACTIVE"
    <3>1. counted.status = "ACTIVE" =>
             KilledRow(counted) = [counted EXCEPT !.status = IF counted.ttl = 0 THEN "EXPIRED" ELSE "KILLED"]
      BY DEF KilledRow, Open
    <3>. QED BY <1>0, <2>1, <3>1 DEF Session
  <2>3. ResultRow(t, i) \in {KilledRow(sessions[t]), KilledRow(counted), counted, sessions[t]}
    BY DEF ResultRow
  <2>. HIDE DEF counted
  <2>4. sessions[t].status = "ACTIVE" => ResultRow(t, i).status # "COMPLETED"
    BY <1>1, <2>1, <2>2, <2>3
  <2>. QED BY <1>7, <2>4, RowUnfinished DEF GateResult
<1>8. ASSUME NEW i \in Intents, NEW w \in Owners, GateReserve(t, i, w) PROVE Unfinished
  <2>1. ReservedRow(t, i).status = sessions[t].status
    BY <1>0 DEF ReservedRow, Session
  <2>. QED BY <1>8, <2>1, RowUnfinished DEF GateReserve
<1>. QED BY <1>2, <1>3, <1>4, <1>5, <1>6, <1>7, <1>8

LEMMA RpcUnfinished ==
    ASSUME RowsInv, NEW s \in Sessions, NEW i \in Intents, NEW w \in Owners, OrderRpc(i, w, s)
    PROVE  Unfinished
BY SameUnfinished, CallsUnfinished DEF OrderRpc, GateSubmit

\* Every step but a FINISH of the run's own session.
LEMMA OthersUnfinished ==
    ASSUME CoordinatorInv, [CoordinatorNext]_coordinatorVars
    PROVE  Unfinished \/ (FinishCall(S) /\ run.pc \in Finishing /\ run.pc \notin EndPcs)
<1>0. RowsInv
  BY DEF CoordinatorInv, SessionInv
<1>1. ASSUME NEW t \in Sessions, Inspect(t) \/ KillCall(t) PROVE Unfinished
  BY <1>0, <1>1, SameUnfinished, CallsUnfinished DEF Inspect, KillCall, sessionVars
<1>2. CASE UNCHANGED sessions
  BY <1>2, SameUnfinished
<1>3. ASSUME run.pc \notin EndPcs, Inspect(S) \/ KillCall(S) PROVE Unfinished
  <2>1. PICK s \in Sessions : s = S
    BY <1>3, RunSession
  <2>. QED BY <1>1, <1>3, <2>1
<1>4. CASE Enter \/ Refuse \/ Look \/ Wait \/ Halt \/ Reread \/ CleanupKill \/ Final \/ (Is("kill") /\ Stop)
  <2>1. run.pc \notin EndPcs /\ (Inspect(S) \/ KillCall(S))
    BY <1>4 DEF Enter, Refuse, Look, Wait, Halt, Reread, CleanupKill, Final, Stop, Is, EndPcs
  <2>. QED BY <1>3, <2>1
<1>5. CASE Close \/ (~Is("kill") /\ Stop)
  BY <1>5 DEF Close, Stop, Is, Finishing, EndPcs
<1>6. CASE StartCycle
  <2>1. run.pc = "start" /\ StartCall(S, C) /\ S \in Sessions /\ C \in Cycles
    BY <1>6, RunFits DEF StartCycle, Is
  <2>2. PICK s \in Sessions, c \in Cycles : s = S /\ c = C
    BY <2>1
  <2>3. StartCall(s, c)
    BY <2>1, <2>2
  <2>. QED BY <1>0, <2>3, SameUnfinished, CallsUnfinished DEF StartCall, sessionVars
<1>7. CASE EndCycle
  <2>1. /\ S \in Sessions /\ C \in Cycles
        /\ CycleEnd(S, C) \/ ExpireSession(S) \/ UNCHANGED sessionVars
    BY <1>7, RunFits DEF EndCycle, Is
  <2>2. PICK s \in Sessions, c \in Cycles : s = S /\ c = C
    BY <2>1
  <2>3. CycleEnd(s, c) \/ ExpireSession(s) \/ UNCHANGED sessionVars
    BY <2>1, <2>2
  <2>. QED BY <1>0, <2>3, SameUnfinished, CallsUnfinished DEF sessionVars
<1>8. CASE DispatchRpc \/ Report
  <2>1. /\ S \in Sessions /\ W \in Owners /\ I \in Intents
        /\ OrderRpc(I, W, S) \/ GateResult(S, I)
    BY <1>8, RunFits DEF DispatchRpc, Report, Is, CoordinatorInv, RunOK, I, Ordering
  <2>2. PICK s \in Sessions, i \in Intents, w \in Owners : s = S /\ i = I /\ w = W
    BY <2>1
  <2>3. OrderRpc(i, w, s) \/ GateResult(s, i)
    BY <2>1, <2>2
  <2>. QED BY <1>0, <2>3, RpcUnfinished, CallsUnfinished
<1>9. CASE \/ Scan \/ WakeUp \/ Acquire \/ AcquireRefused \/ Refresh \/ DispatchEnds \/ TimesOut
           \/ Complete \/ Abandon \/ CleanupRelease \/ Fails \/ Crash \/ \E s \in Sessions : StartRun(s)
           \/ UNCHANGED coordinatorVars
  BY <1>2, <1>9 DEF Scan, WakeUp, Acquire, AcquireRefused, Refresh, DispatchEnds, TimesOut, Complete,
     Abandon, CleanupRelease, Fails, Crash, StartRun, Only, coordinatorVars, sessionVars
<1>10. CASE Operator
  BY <1>0, <1>10, SameUnfinished, CallsUnfinished DEF Operator, sessionVars
<1>11. CASE Tick
  BY <1>0, <1>11 DEF Tick, SessionTick, RowsInv, Session, Unfinished, Has
<1>. QED BY <1>4, <1>5, <1>6, <1>7, <1>8, <1>9, <1>10, <1>11 DEF CoordinatorNext, RunStep

\* Slicing the wait ends no session early: one is completed when its cycles or orders are
\* used up, when no further cycle would be due in time, after a denial whose KILL was
\* lost, or by a run whose local clock is outside the session's window.
THEOREM NeverEndedEarly == CoordinatorSpec => NotEndedEarly
<1>. DEFINE Due(s) == Has(s, "ACTIVE") /\ sessions'[s].status = "COMPLETED" =>
       \/ Cardinality(sessions[s].cycles) = Limits[s].cycles
       \/ OrdersConsumed(s) >= Limits[s].total
       \/ sessions[s].next >= sessions[s].ttl
       \/ S = s /\ run.lost \cap {"kill", "clock"} # {}
<1>1. ASSUME CoordinatorInv, [CoordinatorNext]_coordinatorVars, NEW s \in Sessions PROVE Due(s)
  <2>1. CASE Unfinished
    BY <2>1 DEF Unfinished
  <2>2. CASE FinishCall(S) /\ run.pc \in Finishing /\ run.pc \notin EndPcs
    <3>0. sessions \in [Sessions -> Session]
      BY <1>1 DEF CoordinatorInv, SessionInv, RowsInv
    <3>1. PICK t \in Sessions : t = S
      BY <1>1, <2>2, RunSession
    <3>2. FinishCall(t)
      BY <2>2, <3>1
    <3>3. CASE ExpireSession(t) \/ (Ended(t) /\ UNCHANGED sessionVars)
      BY <1>1, <3>3, SameUnfinished, CallsUnfinished DEF CoordinatorInv, SessionInv, sessionVars, Unfinished
    <3>4. CASE Finish(t)
      <4>1. CASE s # t
        BY <3>0, <3>4, <4>1 DEF Finish, Has
      <4>2. CASE s = t
        <5>1. Justified(s) \/ run.lost \cap {"kill", "clock"} # {}
          BY <1>1, <2>2, <3>1, <4>2 DEF CoordinatorInv, EndOK, Excused
        <5>2. ~Lapsed(s) /\ (Has(s, "ACTIVE") => ~Ended(s))
          BY <3>4, <4>2 DEF Finish, Has, Ended, Open
        <5>. QED BY <3>1, <4>2, <5>1, <5>2 DEF Justified
      <4>. QED BY <4>1, <4>2
    <3>. QED BY <3>2, <3>3, <3>4 DEF FinishCall
  <2>. QED BY <1>1, <2>1, <2>2, OthersUnfinished
<1>2. CoordinatorInv /\ [CoordinatorNext]_coordinatorVars => [\A s \in Sessions : Due(s)]_coordinatorVars
  BY <1>1
<1>. QED BY <1>2, CoordinatorAlways, PTL DEF CoordinatorSpec, NotEndedEarly
=============================================================================

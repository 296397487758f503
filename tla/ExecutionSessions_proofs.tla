----------------------- MODULE ExecutionSessions_proofs -----------------------
(***************************************************************************)
(* The order intents and the sessions over them, for any number of both    *)
(* and any durations.                                                      *)
(*                                                                         *)
(* The intents keep their promise to the account: an order is fenced at    *)
(* most once, and none while another is fenced and unsettled.  Under       *)
(* sessions, a fenced PAPER order is paid by exactly one session, which    *)
(* was active and had time left; the counters of a session are the ledger  *)
(* of what it reserved; one PAPER session is active; an ended one stays    *)
(* ended.                                                                  *)
(***************************************************************************)
EXTENDS ExecutionSessions, CycleLease_proofs, FiniteSetTheorems

-----------------------------------------------------------------------------
(* The order intents.                                                      *)

LEMMA IntentBounds ==
    /\ 0 \in 0..ClaimTTL /\ ClaimTTL \in 0..ClaimTTL
    /\ 0 \in 0..IntentTTL
    /\ 0 \in 0..1
BY IntentConstants

\* What holds of every row: a fenced one is past CLAIMED, one closed without
\* evidence was never fenced, and PAPER evidence names its order.
RowOK(i, row) ==
    /\ row \in Row
    /\ row.attempts = 1 => row.status \notin {"ABSENT", "PENDING", "CLAIMED"}
    /\ row.status = "ABSENT" => row.order = NoOrder /\ row.owner = NoOwner
    /\ row.status \in Terminal /\ ~row.evidence => row.attempts = 0
    /\ i \in Paper => (row.evidence <=> row.order # NoOrder)

\* What a write may make of a row.
RowMove(i, row) ==
    /\ RowOK(i, row)
    /\ intents[i].status \notin Terminal
    /\ intents[i].status # "ABSENT" => row.cycle = intents[i].cycle
    /\ intents[i].order # NoOrder => row.order = intents[i].order
    /\ intents[i].attempts = 1 =>
          /\ row.attempts = 1
          /\ row.status = "SUBMITTING" => intents[i].status = "SUBMITTING"
    /\ row.attempts = 1 /\ intents[i].attempts = 0 => row.status = "SUBMITTING"

\* The unique indexes hold of the table.
OneActiveRow == \A i, j \in Paper :
    intents[i].status \in Active /\ intents[j].status \in Active => i = j
OrdersUnique == \A i, j \in Intents :
    intents[i].order = intents[j].order /\ intents[i].order # NoOrder => i = j

IntentInv ==
    /\ LeaseInv
    /\ intents \in [Intents -> Row]
    /\ \A i \in Intents : RowOK(i, intents[i])
    /\ OneActiveRow
    /\ OrdersUnique

LEMMA IntentInitInv == IntentInit => IntentInv
<1>. SUFFICES ASSUME IntentInit PROVE IntentInv
  OBVIOUS
<1>1. NoRow \in Row
  BY IntentBounds DEF NoRow, FreshRow, Row, Status
<1>2. ASSUME NEW i \in Intents PROVE RowOK(i, intents[i])
  BY <1>1 DEF IntentInit, RowOK, NoRow, FreshRow, Terminal
<1>3. OneActiveRow /\ OrdersUnique
  BY IntentConstants DEF IntentInit, OneActiveRow, OrdersUnique, NoRow, FreshRow, Active
<1>. QED BY <1>1, <1>2, <1>3, LeaseInitInv DEF IntentInit, IntentInv

-----------------------------------------------------------------------------
(* Every call writes a row that RowMove allows.                            *)

LEMMA CreateMoves ==
    ASSUME IntentInv, NEW i \in Intents, NEW w \in Owners, NEW c \in Cycles,
           NEW f \in 0..IntentTTL, CreateIntent(i, w, c, f)
    PROVE  \E row : Write(i, row) /\ RowMove(i, row)
<1>. DEFINE row == FreshRow("PENDING", c, f)
<1>1. row \in Row
  BY IntentBounds DEF FreshRow, Row, Status
<1>2. /\ row.status = "PENDING" /\ row.attempts = 0
      /\ row.order = NoOrder /\ row.evidence = FALSE
  BY DEF FreshRow
<1>3. intents[i].status = "ABSENT" /\ intents[i].attempts # 1 /\ intents[i].order = NoOrder
  BY DEF CreateIntent, IntentInv, RowOK
<1>. HIDE DEF row
<1>4. RowMove(i, row)
  BY <1>1, <1>2, <1>3 DEF RowMove, RowOK, Terminal
<1>. QED BY <1>4 DEF CreateIntent, row

LEMMA TakeClaimMoves ==
    ASSUME IntentInv, NEW i \in Intents, NEW w \in Owners, TakeClaim(i, w)
    PROVE  \E row : Write(i, row) /\ RowMove(i, row)
<1>. DEFINE row == ClaimedRow(i, w)
<1>1. intents[i] \in Row /\ RowOK(i, intents[i])
  BY DEF IntentInv
<1>2. intents[i].status \notin Terminal \cup {"ABSENT"}
  BY DEF TakeClaim
<1>3. row \in Row
  BY <1>1, IntentBounds DEF ClaimedRow, Row, Status, Active
<1>4. /\ row.status = IF intents[i].status = "PENDING" THEN "CLAIMED" ELSE intents[i].status
      /\ row.attempts = intents[i].attempts
      /\ row.order = intents[i].order
      /\ row.cycle = intents[i].cycle
      /\ row.evidence = intents[i].evidence
  BY <1>1 DEF ClaimedRow, Row
<1>. HIDE DEF row
<1>5. RowMove(i, row)
  BY <1>1, <1>2, <1>3, <1>4 DEF RowMove, RowOK, Terminal, Row
<1>. QED BY <1>5 DEF TakeClaim, row

LEMMA ExpireOrphanMoves ==
    ASSUME IntentInv, NEW i \in Intents, ExpireOrphan(i)
    PROVE  \E row : Write(i, row) /\ RowMove(i, row)
<1>. DEFINE row == [intents[i] EXCEPT !.status = "EXPIRED", !.owner = NoOwner, !.claim = 0]
<1>1. intents[i] \in Row /\ RowOK(i, intents[i])
  BY DEF IntentInv
<1>2. intents[i].status \in {"PENDING", "CLAIMED"} /\ intents[i].attempts = 0
  BY <1>1 DEF ExpireOrphan, Orphaned, Unsent, RowOK, Row
<1>3. row \in Row
  BY <1>1, IntentBounds DEF Row, Status, Terminal
<1>4. /\ row.status = "EXPIRED"
      /\ row.attempts = intents[i].attempts
      /\ row.order = intents[i].order
      /\ row.cycle = intents[i].cycle
      /\ row.evidence = intents[i].evidence
  BY <1>1 DEF Row
<1>. HIDE DEF row
<1>5. RowMove(i, row)
  BY <1>1, <1>2, <1>3, <1>4 DEF RowMove, RowOK, Terminal
<1>. QED BY <1>5 DEF ExpireOrphan, row

-----------------------------------------------------------------------------
\* The fields of the row that phase2_advance_order_intent writes.
LEMMA AdvancedFields ==
    ASSUME NEW i \in Intents, intents[i] \in Row, NEW target \in Status \ {"ABSENT"},
           NEW b \in OrderIds \cup {NoOrder}
    PROVE  /\ AdvancedRow(i, target, b) \in Row
           /\ AdvancedRow(i, target, b).status = target
           /\ AdvancedRow(i, target, b).attempts = intents[i].attempts
           /\ AdvancedRow(i, target, b).cycle = intents[i].cycle
           /\ AdvancedRow(i, target, b).order =
                 IF i \in Paper /\ intents[i].order = NoOrder THEN b ELSE intents[i].order
           /\ AdvancedRow(i, target, b).evidence <=> intents[i].evidence \/ b # NoOrder
<1>1. AdvancedRow(i, target, b).status = target
  BY DEF AdvancedRow, Row
<1>2. AdvancedRow(i, target, b).attempts = intents[i].attempts
  BY DEF AdvancedRow, Row
<1>3. AdvancedRow(i, target, b).cycle = intents[i].cycle
  BY DEF AdvancedRow, Row
<1>4. AdvancedRow(i, target, b).order =
          IF i \in Paper /\ intents[i].order = NoOrder THEN b ELSE intents[i].order
  BY DEF AdvancedRow, Row
<1>5. AdvancedRow(i, target, b).evidence <=> intents[i].evidence \/ b # NoOrder
  BY DEF AdvancedRow, Row
<1>6. AdvancedRow(i, target, b) \in Row
  BY IntentBounds DEF AdvancedRow, Row
<1>. QED BY <1>1, <1>2, <1>3, <1>4, <1>5, <1>6

LEMMA FenceMoves ==
    ASSUME IntentInv, NEW i \in Intents, NEW w \in Owners, NEW p \in Nat, Fence(i, w, p)
    PROVE  \E row : Write(i, row) /\ RowMove(i, row)
<1>. DEFINE adv == AdvancedRow(i, "SUBMITTING", NoOrder)
            row == [adv EXCEPT !.attempts = @ + 1]
<1>1. intents[i] \in Row /\ RowOK(i, intents[i])
  BY DEF IntentInv
<1>2. intents[i].status = "CLAIMED" /\ intents[i].attempts = 0
  BY DEF Fence
<1>3. /\ adv \in Row
      /\ adv.status = "SUBMITTING" /\ adv.attempts = 0 /\ adv.cycle = intents[i].cycle
      /\ adv.order = intents[i].order
      /\ adv.evidence <=> intents[i].evidence
  BY <1>1, <1>2, AdvancedFields DEF Status, Active
<1>. HIDE DEF adv
<1>4. row \in Row
  BY <1>3 DEF Row
<1>5. /\ row.status = "SUBMITTING" /\ row.attempts = 1 /\ row.cycle = intents[i].cycle
      /\ row.order = intents[i].order
      /\ row.evidence <=> intents[i].evidence
  BY <1>3 DEF Row
<1>. HIDE DEF row
<1>6. RowMove(i, row)
  BY <1>1, <1>2, <1>4, <1>5 DEF RowMove, RowOK, Terminal
<1>. QED BY <1>6 DEF Fence, row, adv

\* The other targets write AdvancedRow as it is.
LEMMA AdvanceMoves ==
    ASSUME IntentInv, NEW i \in Intents, intents[i].status \notin Terminal,
           NEW target \in Status \ {"ABSENT", "PENDING", "CLAIMED", "SUBMITTING"},
           NEW b \in OrderIds \cup {NoOrder},
           intents[i].status # "ABSENT", EvidenceFits(i, b),
           target \in Terminal /\ b = NoOrder => intents[i].attempts = 0
    PROVE  RowMove(i, AdvancedRow(i, target, b))
<1>. DEFINE row == AdvancedRow(i, target, b)
<1>1. intents[i] \in Row /\ RowOK(i, intents[i])
  BY DEF IntentInv
<1>2. /\ row \in Row
      /\ row.status = target /\ row.attempts = intents[i].attempts
      /\ row.cycle = intents[i].cycle
      /\ row.order = IF i \in Paper /\ intents[i].order = NoOrder THEN b ELSE intents[i].order
      /\ row.evidence <=> intents[i].evidence \/ b # NoOrder
  BY <1>1, AdvancedFields
<1>. HIDE DEF row
<1>3. i \in Paper => (row.evidence <=> row.order # NoOrder)
  BY <1>1, <1>2 DEF RowOK
<1>4. row.status \in Terminal /\ ~row.evidence => row.attempts = 0
  BY <1>2
<1>5. RowOK(i, row)
  BY <1>2, <1>3, <1>4 DEF RowOK
<1>6. RowMove(i, row)
  BY <1>1, <1>2, <1>5 DEF RowMove, RowOK
<1>. QED BY <1>6 DEF row

LEMMA AdvancesMove ==
    ASSUME IntentInv, NEW i \in Intents, NEW w \in Owners, Advance(i, w)
    PROVE  \E row : Write(i, row) /\ RowMove(i, row)
<1>1. ASSUME NEW p \in 0..1, Fence(i, w, p)
      PROVE  \E row : Write(i, row) /\ RowMove(i, row)
  BY <1>1, FenceMoves
<1>2. CASE BeginReconcile(i, w)
  <2>1. RowMove(i, AdvancedRow(i, "RECONCILING", NoOrder))
    BY <1>2, AdvanceMoves DEF BeginReconcile, HoldsClaim, EvidenceFits, Status, Active, Terminal
  <2>. QED BY <1>2, <2>1 DEF BeginReconcile
<1>3. CASE RejectLocally(i, w)
  <2>1. intents[i].attempts = 0
    BY <1>3 DEF RejectLocally, Rejectable, IntentInv, RowOK, Row
  <2>2. RowMove(i, AdvancedRow(i, "REJECTED", NoOrder))
    BY <1>3, <2>1, AdvanceMoves DEF RejectLocally, Rejectable, HoldsClaim, EvidenceFits,
       Status, Terminal
  <2>. QED BY <1>3, <2>2 DEF RejectLocally
<1>4. ASSUME NEW b \in OrderIds \cup {NoOrder}, MarkUnknown(i, w, b)
      PROVE  \E row : Write(i, row) /\ RowMove(i, row)
  <2>1. intents[i].status # "ABSENT"
    BY <1>4, LeaseConstants DEF MarkUnknown, HoldsClaim, IntentInv, RowOK
  <2>2. RowMove(i, AdvancedRow(i, "UNKNOWN", b))
    BY <1>4, <2>1, AdvanceMoves DEF MarkUnknown, HoldsClaim, Status, Active, Terminal
  <2>. QED BY <1>4, <2>2 DEF MarkUnknown
<1>5. ASSUME NEW b \in OrderIds, NEW target \in Terminal \cup {"SUBMITTED"},
             Settle(i, w, target, b)
      PROVE  \E row : Write(i, row) /\ RowMove(i, row)
  <2>1. b # NoOrder /\ intents[i].status \notin {"ABSENT"} \cup Terminal
    BY <1>5 DEF Settle, HoldsClaim, Active
  <2>2. target \in Status \ {"ABSENT", "PENDING", "CLAIMED", "SUBMITTING"}
    BY DEF Status, Active, Terminal
  <2>3. RowMove(i, AdvancedRow(i, target, b))
    BY <1>5, <2>1, <2>2, AdvanceMoves DEF Settle
  <2>. QED BY <1>5, <2>3 DEF Settle
<1>. QED BY <1>1, <1>2, <1>3, <1>4, <1>5 DEF Advance

-----------------------------------------------------------------------------
(* Whatever is called, one row makes a legal move, or none changes but for *)
(* the clock.                                                              *)

\* Only the countdowns differ.
SameButClock(old, new) ==
    /\ new.status = old.status /\ new.cycle = old.cycle /\ new.owner = old.owner
    /\ new.attempts = old.attempts /\ new.order = old.order
    /\ new.evidence <=> old.evidence

LEMMA TickRows ==
    ASSUME IntentInv, IntentTick
    PROVE  /\ intents' \in [Intents -> Row]
           /\ \A i \in Intents : SameButClock(intents[i], intents'[i])
<1>1. ASSUME NEW i \in Intents
      PROVE  /\ [intents[i] EXCEPT !.claim = Elapse(@), !.fresh = Elapse(@)] \in Row
             /\ SameButClock(intents[i],
                    [intents[i] EXCEPT !.claim = Elapse(@), !.fresh = Elapse(@)])
  <2>1. intents[i] \in Row
    BY DEF IntentInv
  <2>2. Elapse(intents[i].claim) \in 0..ClaimTTL /\ Elapse(intents[i].fresh) \in 0..IntentTTL
    BY <2>1, ElapseBound, IntentConstants DEF Row
  <2>. QED BY <2>1, <2>2 DEF Row, SameButClock
<1>. QED BY <1>1 DEF IntentTick

LEMMA IntentStep ==
    ASSUME IntentInv, [IntentNext]_intentVars
    PROVE  /\ [LeaseNext]_leaseVars
           /\ \/ \E i \in Intents : \E row : Write(i, row) /\ RowMove(i, row)
              \/ IntentTick
              \/ UNCHANGED intents
<1>1. CASE LeaseStep
  BY <1>1 DEF LeaseStep, LeaseNext
<1>2. CASE IntentTick
  BY <1>2 DEF IntentTick, LeaseNext
<1>3. CASE UNCHANGED intentVars
  BY <1>3 DEF intentVars
<1>4. ASSUME NEW i \in Intents, NEW w \in Owners, Create(i, w) \/ Claim(i, w) \/ Advance(i, w)
      PROVE  \/ \E row : Write(i, row) /\ RowMove(i, row)
             \/ UNCHANGED intentVars
  <2>1. CASE Create(i, w)
    BY <2>1, CreateMoves DEF Create, ReplayCreate
  <2>2. CASE Claim(i, w)
    BY <2>2, TakeClaimMoves, ExpireOrphanMoves DEF Claim, KeepClaim
  <2>3. CASE Advance(i, w)
    BY <2>3, AdvancesMove
  <2>. QED BY <1>4, <2>1, <2>2, <2>3
<1>5. ASSUME NEW i \in Intents, NEW row, Write(i, row)
      PROVE  [LeaseNext]_leaseVars
  BY <1>5 DEF Write
<1>6. CASE \E i \in Intents, w \in Owners : Create(i, w) \/ Claim(i, w) \/ Advance(i, w)
  <2>1. PICK i \in Intents, w \in Owners : Create(i, w) \/ Claim(i, w) \/ Advance(i, w)
    BY <1>6
  <2>2. CASE \E row : Write(i, row) /\ RowMove(i, row)
    BY <2>2, <1>5
  <2>3. CASE UNCHANGED intentVars
    BY <2>3 DEF intentVars
  <2>. QED BY <2>1, <2>2, <2>3, <1>4
<1>. QED BY <1>1, <1>2, <1>3, <1>6 DEF IntentNext

\* The unique indexes keep their promise when the clock moves or a write passes them.
LEMMA IntentNextInv == IntentInv /\ [IntentNext]_intentVars => IntentInv'
<1>. SUFFICES ASSUME IntentInv, [IntentNext]_intentVars
             PROVE  IntentInv'
  OBVIOUS
<1>1. LeaseInv'
  BY IntentStep, LeaseNextInv DEF IntentInv
<1>2. ASSUME NEW i \in Intents, NEW row, Write(i, row), RowMove(i, row)
      PROVE  IntentInv'
  <2>1. /\ intents' = [intents EXCEPT ![i] = row]
        /\ row \in Row /\ RowOK(i, row) /\ intents \in [Intents -> Row]
        /\ \A j \in Intents : RowOK(j, intents[j])
    BY <1>2 DEF Write, RowMove, RowOK, IntentInv
  <2>2. intents' \in [Intents -> Row] /\ intents'[i] = row
        /\ \A j \in Intents \ {i} : intents'[j] = intents[j]
    BY <2>1
  <2>3. \A j \in Intents : RowOK(j, intents'[j])
    BY <2>1, <2>2
  <2>4. OneActiveRow'
    BY <1>2, <2>2, IntentConstants DEF Write, OneActive, OneActiveRow, IntentInv
  <2>5. OrdersUnique'
    BY <1>2, <2>2 DEF Write, OrderUnbound, OrdersUnique, IntentInv
  <2>. QED BY <1>1, <2>2, <2>3, <2>4, <2>5 DEF IntentInv, RowOK
<1>3. CASE IntentTick
  <2>1. intents' \in [Intents -> Row] /\ \A i \in Intents : SameButClock(intents[i], intents'[i])
    BY <1>3, TickRows
  <2>2. \A i \in Intents : RowOK(i, intents'[i])
    BY <2>1 DEF SameButClock, RowOK, IntentInv
  <2>3. OneActiveRow' /\ OrdersUnique'
    BY <2>1, IntentConstants DEF SameButClock, OneActiveRow, OrdersUnique, IntentInv
  <2>. QED BY <1>1, <2>1, <2>2, <2>3 DEF IntentInv, RowOK
<1>4. CASE UNCHANGED intents
  BY <1>1, <1>4 DEF IntentInv, RowOK, OneActiveRow, OrdersUnique
<1>. QED BY <1>2, <1>3, <1>4, IntentStep

LEMMA IntentAlways == IntentSpec => []IntentInv
BY IntentInitInv, IntentNextInv, PTL DEF IntentSpec

\* Every reachable row and lease is well typed.
THEOREM IntentTypeCorrect == IntentSpec => []IntentTypeOK
<1>1. IntentInv => IntentTypeOK
  BY DEF IntentInv, LeaseInv, IntentTypeOK
<1>. QED BY <1>1, IntentAlways, PTL

\* Neither the orphan sweep nor a local rejection closes an intent that was fenced.
THEOREM ClosesOnlyUnsent == IntentSpec => []UnsentClosure
<1>1. IntentInv => UnsentClosure
  BY DEF IntentInv, RowOK, UnsentClosure
<1>. QED BY <1>1, IntentAlways, PTL

\* Broker orders and PAPER intents are bound one to one, and by evidence only.
THEOREM BindsOrders == IntentSpec => []OrderBinding
<1>1. IntentInv => OrderBinding
  BY IntentConstants DEF IntentInv, RowOK, OrdersUnique, OrderBinding
<1>. QED BY <1>1, IntentAlways, PTL

\* A fenced intent can never be fenced again.
THEOREM FenceIsIrreversible == IntentSpec => Irreversible
<1>. DEFINE Kept(i) ==
       /\ intents[i].attempts = 1 =>
            /\ intents'[i].attempts = 1
            /\ intents'[i].status \notin {"ABSENT", "PENDING", "CLAIMED"}
            /\ intents'[i].status = "SUBMITTING" => intents[i].status = "SUBMITTING"
       /\ intents[i].order # NoOrder => intents'[i].order = intents[i].order
<1>1. ASSUME IntentInv, [IntentNext]_intentVars, NEW i \in Intents
      PROVE  Kept(i)
  <2>1. RowOK(i, intents[i])
    BY <1>1 DEF IntentInv
  <2>2. ASSUME NEW j \in Intents, NEW row, Write(j, row), RowMove(j, row)
        PROVE  Kept(i)
    <3>1. intents' = [intents EXCEPT ![j] = row] /\ intents \in [Intents -> Row]
      BY <1>1, <2>2 DEF Write, IntentInv
    <3>2. CASE i = j
      BY <2>2, <3>1, <3>2 DEF RowMove, RowOK
    <3>3. CASE i # j
      BY <2>1, <3>1, <3>3 DEF RowOK
    <3>. QED BY <3>2, <3>3
  <2>3. CASE IntentTick
    BY <1>1, <2>1, <2>3, TickRows DEF SameButClock, RowOK
  <2>4. CASE UNCHANGED intents
    BY <2>1, <2>4 DEF RowOK
  <2>. QED BY <1>1, <2>2, <2>3, <2>4, IntentStep
<1>2. IntentInv /\ [IntentNext]_intentVars => [\A i \in Intents : Kept(i)]_intentVars
  BY <1>1
<1>. QED BY <1>2, IntentAlways, PTL DEF IntentSpec, Irreversible

\* A terminal row is final, and no row moves to another cycle.
THEOREM TerminalIsFinal == IntentSpec => TerminalFinal
<1>. DEFINE Kept(i) ==
       /\ intents[i].status \in Terminal =>
            /\ intents'[i].status = intents[i].status
            /\ intents'[i].attempts = intents[i].attempts
       /\ intents[i].status # "ABSENT" => intents'[i].cycle = intents[i].cycle
<1>1. ASSUME IntentInv, [IntentNext]_intentVars, NEW i \in Intents
      PROVE  Kept(i)
  <2>1. ASSUME NEW j \in Intents, NEW row, Write(j, row), RowMove(j, row)
        PROVE  Kept(i)
    <3>1. intents' = [intents EXCEPT ![j] = row] /\ intents \in [Intents -> Row]
      BY <1>1, <2>1 DEF Write, IntentInv
    <3>. QED BY <2>1, <3>1 DEF RowMove
  <2>2. CASE IntentTick
    BY <1>1, <2>2, TickRows DEF SameButClock
  <2>. QED BY <1>1, <2>1, <2>2, IntentStep
<1>2. IntentInv /\ [IntentNext]_intentVars => [\A i \in Intents : Kept(i)]_intentVars
  BY <1>1
<1>. QED BY <1>2, IntentAlways, PTL DEF IntentSpec, TerminalFinal

-----------------------------------------------------------------------------
(* The refinement: the table implements one order at a time.               *)

Fenced == {i \in Paper : intents[i].attempts = 1}
ExposedSet == {i \in Paper : Exposed(i)}

LEMMA ExposedIsActive ==
    ASSUME IntentInv, NEW i \in Paper, Exposed(i)
    PROVE  intents[i].status \in Active
<1>1. i \in Intents /\ intents[i] \in Row /\ RowOK(i, intents[i])
  BY IntentConstants DEF IntentInv
<1>. QED BY <1>1 DEF Exposed, RowOK, Row, Status

\* A write fences a PAPER row while nothing is exposed, settles an exposed one, or
\* leaves both sets alone.
LEMMA WriteKeepsPromise ==
    ASSUME IntentInv, NEW i \in Intents, NEW row, Write(i, row), RowMove(i, row)
    PROVE  \/ \E o \in Paper : Ledger!Send(o) \/ Ledger!End(o)
           \/ Fenced' = Fenced /\ ExposedSet' = ExposedSet
<1>. DEFINE old == intents[i]
<1>1. /\ intents' = [intents EXCEPT ![i] = row] /\ intents \in [Intents -> Row]
      /\ old \in Row /\ row \in Row
      /\ old.attempts \in {0, 1} /\ row.attempts \in {0, 1}
  BY DEF Write, RowMove, RowOK, IntentInv, Row
<1>2. intents'[i] = row /\ \A j \in Paper \ {i} : intents'[j] = intents[j]
  BY <1>1, IntentConstants
<1>3. CASE i \notin Paper \/ (old.attempts = 0 /\ row.attempts = 0)
  BY <1>2, <1>3 DEF Fenced, ExposedSet, Exposed
<1>4. CASE i \in Paper /\ old.attempts = 0 /\ row.attempts = 1
  <2>1. row.status = "SUBMITTING"
    BY <1>4 DEF RowMove
  <2>2. \A j \in Paper \ {i} : ~Exposed(j)
    BY <1>4, <2>1, ExposedIsActive DEF Write, OneActive, Active
  <2>3. ExposedSet = {} /\ i \notin Fenced
    BY <1>4, <2>2 DEF ExposedSet, Exposed, Fenced
  <2>4. Fenced' = Fenced \cup {i}
    BY <1>2, <1>4 DEF Fenced
  <2>5. ExposedSet' = {i}
    BY <1>2, <1>4, <2>1, <2>2 DEF ExposedSet, Exposed, Terminal
  <2>6. Ledger!Send(i)
    BY <2>3, <2>4, <2>5 DEF Ledger!Send, Fenced, ExposedSet
  <2>. QED BY <1>4, <2>6
<1>5. CASE i \in Paper /\ old.attempts = 1
  <2>1. row.attempts = 1 /\ old.status \notin Terminal
    BY <1>5 DEF RowMove
  <2>2. Fenced' = Fenced /\ i \in ExposedSet
    BY <1>2, <1>5, <2>1 DEF Fenced, ExposedSet, Exposed
  <2>3. CASE row.status \in Terminal
    <3>1. ExposedSet' = ExposedSet \ {i}
      BY <1>2, <2>1, <2>3 DEF ExposedSet, Exposed
    <3>2. Ledger!End(i)
      BY <2>2, <3>1 DEF Ledger!End, Fenced, ExposedSet
    <3>. QED BY <1>5, <3>2
  <2>4. CASE row.status \notin Terminal
    BY <1>2, <1>5, <2>1, <2>2, <2>4 DEF ExposedSet, Exposed
  <2>. QED BY <2>3, <2>4
<1>. QED BY <1>1, <1>3, <1>4, <1>5

\* The order intents implement OneOrderAtATime: an order is fenced at most once, and
\* none while another is fenced and unsettled.
THEOREM IntentsKeepPromise == IntentSpec => LedgerKeepsPromise
<1>1. IntentInit => Ledger!Init
  BY IntentConstants DEF IntentInit, Ledger!Init, NoRow, FreshRow, Exposed
<1>2. ASSUME IntentInv, [IntentNext]_intentVars
      PROVE  \/ \E o \in Paper : Ledger!Send(o) \/ Ledger!End(o)
             \/ Fenced' = Fenced /\ ExposedSet' = ExposedSet
  <2>1. CASE IntentTick
    BY <1>2, <2>1, TickRows, IntentConstants DEF SameButClock, Fenced, ExposedSet, Exposed
  <2>2. CASE UNCHANGED intents
    BY <2>2 DEF Fenced, ExposedSet, Exposed
  <2>. QED BY <1>2, <2>1, <2>2, IntentStep, WriteKeepsPromise
<1>3. IntentInv /\ [IntentNext]_intentVars => [Ledger!Next]_<<Fenced, ExposedSet>>
  BY <1>2 DEF Ledger!Next
<1>. QED BY <1>1, <1>3, IntentAlways, PTL DEF IntentSpec, LedgerKeepsPromise, Ledger!Spec,
            Fenced, ExposedSet

-----------------------------------------------------------------------------
(* The sum of a function over a finite set, as MapThenSumSet computes it.  *)
(* tlapm has no induction here: a least counterexample takes its place.    *)

\* Among sets of elements of a finite set there is one that contains no other.
LEMMA LeastSet ==
    ASSUME NEW S, IsFiniteSet(S), NEW Bad \in SUBSET (SUBSET S), Bad # {}
    PROVE  \E R \in Bad : IsFiniteSet(R) /\ \A Q \in Bad : Q \subseteq R => Q = R
<1>1. FiniteSubsetsOf(S) = SUBSET S
  BY FS_FiniteSubsetsOfFinite
<1>2. IsWellFoundedOn(StrictSubsetOrdering(S), SUBSET S)
  BY <1>1, FS_StrictSubsetOrderingWellFounded
<1>3. PICK R \in Bad : \A Q \in Bad : ~ (<<Q, R>> \in StrictSubsetOrdering(S))
  BY <1>2, WFMin
<1>. QED BY <1>3, FS_Subset DEF StrictSubsetOrdering

\* MapThenSumSet takes one element after the other, each time the one CHOOSE picks.
Pick(R) == CHOOSE x \in R : TRUE
Unrolls(g, f, S) ==
    g = [R \in SUBSET S |-> IF R = {} THEN 0 ELSE f[Pick(R)] + g[R \ {Pick(R)}]]
Total(f, S) == MapThenSumSet(LAMBDA x : f[x], S)

LEMMA TotalIsUnrolled ==
    ASSUME NEW f, NEW S
    PROVE  Total(f, S) = (CHOOSE g : Unrolls(g, f, S))[S]
BY DEF Total, Unrolls, Pick, MapThenSumSet, MapThenFoldSet

\* Two unrollings agree on the finite sets that both cover.
LEMMA UnrollsAgree ==
    ASSUME NEW f, NEW S, NEW T, NEW g, NEW h, Unrolls(g, f, S), Unrolls(h, f, T),
           NEW R, R \subseteq S, R \subseteq T, IsFiniteSet(R)
    PROVE  g[R] = h[R]
<1>. DEFINE Bad == {Q \in SUBSET R : g[Q] # h[Q]}
<1>1. Bad \in SUBSET (SUBSET R)
  OBVIOUS
<1>2. SUFFICES ASSUME Bad # {} PROVE FALSE
  OBVIOUS
<1>3. PICK Q \in Bad : \A P \in Bad : P \subseteq Q => P = Q
  <2>. HIDE DEF Bad
  <2>. QED BY <1>1, <1>2, LeastSet
<1>4. Q \in SUBSET S /\ Q \in SUBSET T
  BY <1>3
<1>5. /\ g[Q] = IF Q = {} THEN 0 ELSE f[Pick(Q)] + g[Q \ {Pick(Q)}]
      /\ h[Q] = IF Q = {} THEN 0 ELSE f[Pick(Q)] + h[Q \ {Pick(Q)}]
  BY <1>4 DEF Unrolls
<1>6. ASSUME Q # {} PROVE Pick(Q) \in Q
  BY <1>6 DEF Pick
<1>7. ASSUME Q # {} PROVE g[Q \ {Pick(Q)}] = h[Q \ {Pick(Q)}]
  BY <1>3, <1>6, <1>7
<1>. QED BY <1>3, <1>5, <1>7

\* The sum of a finite set is there.
LEMMA UnrollsExists ==
    ASSUME NEW f, NEW S, IsFiniteSet(S)
    PROVE  \E g : Unrolls(g, f, S)
<1>. DEFINE Bad == {R \in SUBSET S : ~ \E g : Unrolls(g, f, R)}
<1>1. Bad \in SUBSET (SUBSET S)
  OBVIOUS
<1>2. SUFFICES ASSUME Bad # {} PROVE FALSE
  OBVIOUS
<1>3. PICK R \in Bad : IsFiniteSet(R) /\ \A P \in Bad : P \subseteq R => P = R
  <2>. HIDE DEF Bad
  <2>. QED BY <1>1, <1>2, LeastSet
<1>. DEFINE G(Q) == (CHOOSE g : Unrolls(g, f, Q))[Q]
            h == [Q \in SUBSET R |-> IF Q = {} THEN 0 ELSE f[Pick(Q)] + G(Q \ {Pick(Q)})]
<1>4. ASSUME NEW Q \in SUBSET R, Q # R
      PROVE  Unrolls(CHOOSE g : Unrolls(g, f, Q), f, Q)
  <2>1. \E g : Unrolls(g, f, Q)
    BY <1>3, <1>4
  <2>. QED BY <2>1
<1>5. ASSUME NEW Q \in SUBSET R, Q # R
      PROVE  h[Q] = G(Q)
  <2>. DEFINE g == CHOOSE g : Unrolls(g, f, Q)
  <2>1. Unrolls(g, f, Q)
    BY <1>4, <1>5
  <2>2. g[Q] = IF Q = {} THEN 0 ELSE f[Pick(Q)] + g[Q \ {Pick(Q)}]
    <3>. HIDE DEF g
    <3>. QED BY <2>1 DEF Unrolls
  <2>3. ASSUME Q # {} PROVE g[Q \ {Pick(Q)}] = G(Q \ {Pick(Q)})
    <3>1. Pick(Q) \in Q
      BY <2>3 DEF Pick
    <3>. DEFINE P == Q \ {Pick(Q)}
    <3>2. P \in SUBSET R /\ P # R /\ P \subseteq Q /\ IsFiniteSet(P)
      BY <1>3, <3>1, FS_Subset
    <3>3. Unrolls(CHOOSE k : Unrolls(k, f, P), f, P)
      BY <1>4, <3>2
    <3>4. g[P] = (CHOOSE k : Unrolls(k, f, P))[P]
      <4>. HIDE DEF g, P
      <4>. QED BY <2>1, <3>2, <3>3, UnrollsAgree
    <3>. QED BY <3>4
  <2>. QED BY <2>2, <2>3
<1>6. ASSUME NEW Q \in SUBSET R, Q # {} PROVE h[Q \ {Pick(Q)}] = G(Q \ {Pick(Q)})
  <2>1. Pick(Q) \in Q
    BY <1>6 DEF Pick
  <2>. HIDE DEF h, G
  <2>. QED BY <1>5, <2>1
<1>7. Unrolls(h, f, R)
  <2>. HIDE DEF G
  <2>1. h = [Q \in SUBSET R |-> IF Q = {} THEN 0 ELSE f[Pick(Q)] + h[Q \ {Pick(Q)}]]
    BY <1>6
  <2>. QED BY <2>1 DEF Unrolls
<1>. HIDE DEF h
<1>. QED BY <1>3, <1>7

LEMMA TotalUnrolls ==
    ASSUME NEW f, NEW S, IsFiniteSet(S)
    PROVE  Total(f, S) = IF S = {} THEN 0 ELSE f[Pick(S)] + Total(f, S \ {Pick(S)})
<1>. DEFINE T == S \ {Pick(S)}
            g == CHOOSE k : Unrolls(k, f, S)
            h == CHOOSE k : Unrolls(k, f, T)
<1>1. IsFiniteSet(T) /\ T \subseteq S
  BY FS_Subset
<1>2. Unrolls(g, f, S) /\ Unrolls(h, f, T)
  <2>1. (\E k : Unrolls(k, f, S)) /\ (\E k : Unrolls(k, f, T))
    BY <1>1, UnrollsExists
  <2>. QED BY <2>1
<1>3. Total(f, S) = g[S] /\ Total(f, T) = h[T]
  BY TotalIsUnrolled
<1>. HIDE DEF g, h
<1>4. g[T] = h[T]
  BY <1>1, <1>2, UnrollsAgree
<1>5. g[S] = IF S = {} THEN 0 ELSE f[Pick(S)] + g[T]
  BY <1>2 DEF Unrolls
<1>. QED BY <1>3, <1>4, <1>5

LEMMA TotalType ==
    ASSUME NEW S, IsFiniteSet(S), NEW f, \A x \in S : f[x] \in Int
    PROVE  \A R \in SUBSET S : Total(f, R) \in Int
<1>. DEFINE Bad == {R \in SUBSET S : Total(f, R) \notin Int}
<1>1. Bad \in SUBSET (SUBSET S)
  OBVIOUS
<1>2. SUFFICES ASSUME Bad # {} PROVE FALSE
  OBVIOUS
<1>3. PICK R \in Bad : IsFiniteSet(R) /\ \A P \in Bad : P \subseteq R => P = R
  <2>. HIDE DEF Bad
  <2>. QED BY <1>1, <1>2, LeastSet
<1>4. R # {}
  BY <1>3, TotalUnrolls
<1>5. Pick(R) \in R
  BY <1>4 DEF Pick
<1>6. Total(f, R \ {Pick(R)}) \in Int
  BY <1>3, <1>5
<1>7. Total(f, R) = f[Pick(R)] + Total(f, R \ {Pick(R)})
  BY <1>3, <1>4, TotalUnrolls
<1>. QED BY <1>3, <1>5, <1>6, <1>7

\* The order in which CHOOSE takes the elements does not matter.
LEMMA TotalTakes ==
    ASSUME NEW S, IsFiniteSet(S), NEW f, \A x \in S : f[x] \in Int
    PROVE  \A R \in SUBSET S : \A x \in R : Total(f, R) = f[x] + Total(f, R \ {x})
<1>. DEFINE Takes(R, x) == Total(f, R) = f[x] + Total(f, R \ {x})
            Bad == {R \in SUBSET S : \E x \in R : ~ Takes(R, x)}
<1>1. Bad \in SUBSET (SUBSET S)
  OBVIOUS
<1>2. SUFFICES ASSUME Bad # {} PROVE FALSE
  OBVIOUS
<1>3. PICK R \in Bad : IsFiniteSet(R) /\ \A P \in Bad : P \subseteq R => P = R
  <2>. HIDE DEF Bad
  <2>. QED BY <1>1, <1>2, LeastSet
<1>4. PICK x \in R : ~ Takes(R, x)
  BY <1>3
<1>. DEFINE p == Pick(R)
<1>5. p \in R
  BY <1>4 DEF Pick
<1>6. Takes(R, p)
  BY <1>3, <1>4, TotalUnrolls
<1>. HIDE DEF p
<1>7. p # x
  BY <1>4, <1>6
<1>8. R \ {p} \notin Bad /\ R \ {x} \notin Bad
  BY <1>3, <1>4, <1>5
<1>9. Takes(R \ {p}, x) /\ Takes(R \ {x}, p)
  BY <1>4, <1>5, <1>7, <1>8
<1>10. (R \ {p}) \ {x} = (R \ {x}) \ {p}
  OBVIOUS
<1>11. /\ f[x] \in Int /\ f[p] \in Int
       /\ Total(f, (R \ {p}) \ {x}) \in Int
  BY <1>3, <1>4, <1>5, TotalType
<1>12. Total(f, R) = f[p] + (f[x] + Total(f, (R \ {p}) \ {x}))
  BY <1>6, <1>9
<1>13. Total(f, R \ {x}) = f[p] + Total(f, (R \ {p}) \ {x})
  BY <1>9, <1>10
<1>. QED BY <1>4, <1>11, <1>12, <1>13

-----------------------------------------------------------------------------
(* The sessions.                                                           *)

EndedStatus == {"EXPIRED", "KILLED", "COMPLETED"}

\* What holds of every row: nothing is reserved before the session is active, only what
\* was reserved can fail, and the failure limit ends it.
SessionRowOK(s, row) ==
    /\ row \in Session
    /\ row.status \in {"ABSENT", "DRAFT"} => row.reserved = {}
    /\ row.failed \subseteq row.reserved
    /\ \A i \in row.reserved : SameClass(s, i)
    /\ row.status = "ACTIVE" => ~FailureLimit(s, row.failed)

\* What a step may make of a row.
SessionRowMove(s, row) ==
    /\ SessionRowOK(s, row)
    /\ sessions[s].reserved \subseteq row.reserved
    /\ sessions[s].status \in EndedStatus =>
          /\ row.status = sessions[s].status
          /\ row.reserved = sessions[s].reserved
          /\ row.cycles = sessions[s].cycles

ReservedOnce == \A s, t \in Sessions : \A i \in Intents :
    i \in sessions[s].reserved /\ i \in sessions[t].reserved => s = t

PaperReserved == \A i \in Paper :
    intents[i].attempts = 1 => \E s \in Sessions : i \in sessions[s].reserved

\* The rows by themselves; and with the intents.
RowsInv ==
    /\ sessions \in [Sessions -> Session]
    /\ \A s \in Sessions : SessionRowOK(s, sessions[s])
    /\ OneActiveSession
    /\ ReservedOnce
SessionInv == IntentInv /\ RowsInv /\ PaperReserved

LEMMA SessionBounds ==
    /\ 0 \in 0..SessionDelay /\ SessionDelay \in 0..SessionDelay
    /\ 0 \in 0..SessionTTL /\ SessionTTL \in 0..SessionTTL
    /\ 0 \in 0..Cadence /\ Cadence \in 0..Cadence
BY SessionConstants

LEMMA NothingFailed == ASSUME NEW s \in Sessions PROVE ~FailureLimit(s, {})
<1>1. Cardinality({}) = 0
  BY FS_EmptySet
<1>2. Limits[s].failures \in 1..2
  BY SessionConstants DEF Limit
<1>. QED BY <1>1, <1>2 DEF FailureLimit

LEMMA NoSessionOK == ASSUME NEW s \in Sessions PROVE SessionRowOK(s, NoSession)
<1>1. NoSession \in Session
  BY SessionBounds DEF NoSession, Session, SessionStatus
<1>. QED BY <1>1 DEF SessionRowOK, NoSession

LEMMA SessionInitInv == SessionInit => SessionInv
<1>. SUFFICES ASSUME SessionInit PROVE SessionInv
  OBVIOUS
<1>1. IntentInv
  BY IntentInitInv DEF SessionInit
<1>2. sessions = [s \in Sessions |-> NoSession]
  BY DEF SessionInit
<1>3. \A s \in Sessions : SessionRowOK(s, sessions[s])
  BY <1>2, NoSessionOK
<1>4. sessions \in [Sessions -> Session]
  BY <1>2, NoSessionOK DEF SessionRowOK
<1>5. OneActiveSession /\ ReservedOnce
  BY <1>2, SessionConstants DEF OneActiveSession, ReservedOnce, Has, NoSession
<1>6. PaperReserved
  BY IntentConstants DEF SessionInit, IntentInit, NoRow, FreshRow, PaperReserved
<1>. QED BY <1>1, <1>3, <1>4, <1>5, <1>6 DEF SessionInv, RowsInv

-----------------------------------------------------------------------------
(* One call writes one row, without activating it.                         *)

\* A row is written that activates nothing, and reserves nothing reserved elsewhere.
Writes(s, row) ==
    /\ sessions' = [sessions EXCEPT ![s] = row]
    /\ SessionRowMove(s, row)
    /\ row.status = "ACTIVE" => Has(s, "ACTIVE")
    /\ \A i \in row.reserved \ sessions[s].reserved : ~BudgetedElsewhere(s, i)

LEMMA WritesInv ==
    ASSUME RowsInv, NEW s \in Sessions, NEW row, Writes(s, row)
    PROVE  RowsInv' /\ \A t \in Sessions : SessionRowMove(t, sessions'[t])
<1>1. row \in Session /\ SessionRowOK(s, row) /\ sessions[s].reserved \subseteq row.reserved
  BY DEF Writes, SessionRowMove, SessionRowOK
<1>2. sessions' \in [Sessions -> Session] /\ sessions'[s] = row
      /\ \A t \in Sessions \ {s} : sessions'[t] = sessions[t]
  BY <1>1 DEF Writes, RowsInv
<1>3. \A t \in Sessions : SessionRowMove(t, sessions'[t])
  BY <1>2 DEF Writes, SessionRowMove, RowsInv
<1>4. OneActiveSession'
  BY <1>2, SessionConstants DEF Writes, RowsInv, OneActiveSession, Has
<1>5. ReservedOnce'
  BY <1>2 DEF Writes, RowsInv, ReservedOnce, BudgetedElsewhere
<1>6. \A t \in Sessions : SessionRowOK(t, sessions'[t])
  BY <1>3 DEF SessionRowMove
<1>. QED BY <1>2, <1>3, <1>4, <1>5, <1>6 DEF RowsInv, SessionRowOK, SameClass, FailureLimit

\* A row that only changes status, to one that is not active.
LEMMA StatusWrites ==
    ASSUME RowsInv, NEW s \in Sessions, sessions[s].status \in Open,
           NEW status \in EndedStatus, sessions' = [sessions EXCEPT ![s].status = status]
    PROVE  \E row : Writes(s, row)
<1>. DEFINE row == [sessions[s] EXCEPT !.status = status]
<1>1. sessions[s] \in Session /\ SessionRowOK(s, sessions[s])
  BY DEF RowsInv
<1>2. /\ row \in Session /\ row.status = status /\ row.reserved = sessions[s].reserved
      /\ row.failed = sessions[s].failed
  BY <1>1 DEF Session, SessionStatus, EndedStatus
<1>. HIDE DEF row
<1>3. SessionRowMove(s, row) /\ row.status # "ACTIVE"
  BY <1>1, <1>2 DEF SessionRowMove, SessionRowOK, EndedStatus, Open
<1>4. sessions' = [sessions EXCEPT ![s] = row]
  BY DEF row
<1>. QED BY <1>2, <1>3, <1>4 DEF Writes

LEMMA CreateWrites ==
    ASSUME RowsInv, NEW s \in Sessions, CreateSession(s)
    PROVE  \E row : Writes(s, row)
<1>. DEFINE row == [NoSession EXCEPT !.status = "DRAFT", !.starts = SessionDelay, !.ttl = SessionTTL]
<1>1. SessionRowOK(s, sessions[s]) /\ sessions[s].status = "ABSENT"
  BY DEF RowsInv, CreateSession, Has
<1>2. /\ row \in Session /\ row.status = "DRAFT" /\ row.reserved = {} /\ row.failed = {}
  BY NoSessionOK, SessionBounds DEF SessionRowOK, NoSession, Session, SessionStatus
<1>. HIDE DEF row
<1>3. SessionRowMove(s, row)
  BY <1>1, <1>2 DEF SessionRowMove, SessionRowOK, EndedStatus
<1>. QED BY <1>2, <1>3 DEF Writes, CreateSession, row

LEMMA ExpireWrites ==
    ASSUME RowsInv, NEW s \in Sessions, ExpireSession(s)
    PROVE  \E row : Writes(s, row)
BY StatusWrites DEF ExpireSession, Expired, Lapsed, EndedStatus

\* KILL, by the caller or by the gate.
LEMMA KillWrites ==
    ASSUME RowsInv, NEW s \in Sessions, sessions[s].status \in Open,
           sessions' = [sessions EXCEPT ![s] = KilledRow(@)]
    PROVE  \E row : Writes(s, row)
<1>1. PICK status \in EndedStatus : sessions' = [sessions EXCEPT ![s].status = status]
  BY DEF KilledRow, EndedStatus
<1>. QED BY <1>1, StatusWrites

LEMMA CycleWrites ==
    ASSUME RowsInv, NEW s \in Sessions, NEW c \in Cycles, CycleStart(s, c) \/ CycleEnd(s, c)
    PROVE  \E row : Writes(s, row)
<1>. DEFINE old == sessions[s]
            started == [old EXCEPT !.cycles = @ \cup {c}, !.next = Cadence]
            ended == [old EXCEPT !.ended = @ \cup {c}]
<1>1. old \in Session /\ SessionRowOK(s, old) /\ old.status \in Open
  BY DEF RowsInv, CycleStart, CycleEnd, Has, Open
<1>2. ASSUME NEW row \in {started, ended}
      PROVE  /\ row \in Session /\ row.status = old.status /\ row.reserved = old.reserved
             /\ row.failed = old.failed
  <2>1. started \in Session /\ ended \in Session
    BY <1>1, SessionBounds DEF Session
  <2>2. /\ started.status = old.status /\ started.reserved = old.reserved
        /\ started.failed = old.failed
    BY <1>1 DEF Session
  <2>3. /\ ended.status = old.status /\ ended.reserved = old.reserved
        /\ ended.failed = old.failed
    BY <1>1 DEF Session
  <2>. QED BY <2>1, <2>2, <2>3
<1>3. PICK row \in {started, ended} : sessions' = [sessions EXCEPT ![s] = row]
  BY DEF CycleStart, CycleEnd
<1>. HIDE DEF started, ended
<1>4. SessionRowMove(s, row) /\ (row.status = "ACTIVE" => Has(s, "ACTIVE"))
  BY <1>1, <1>2 DEF SessionRowMove, SessionRowOK, EndedStatus, Open, Has
<1>. QED BY <1>2, <1>3, <1>4 DEF Writes

LEMMA ResultWrites ==
    ASSUME RowsInv, NEW s \in Sessions, NEW i \in Intents, GateResult(s, i)
    PROVE  \E row : Writes(s, row)
<1>. DEFINE old == sessions[s]
            failed == old.failed \cup {i}
            counted == [old EXCEPT !.failed = failed]
            row == ResultRow(s, i)
<1>1. old \in Session /\ SessionRowOK(s, old) /\ i \in old.reserved
  BY DEF RowsInv, GateResult
<1>2. /\ counted \in Session /\ counted.failed = failed /\ counted.reserved = old.reserved
      /\ counted.status = old.status /\ counted.cycles = old.cycles
  BY <1>1 DEF Session
<1>. HIDE DEF counted
<1>3. ASSUME NEW r \in {old, counted}
      PROVE  /\ KilledRow(r) \in Session /\ KilledRow(r).status # "ACTIVE"
             /\ KilledRow(r).reserved = old.reserved /\ KilledRow(r).failed = r.failed
             /\ KilledRow(r).cycles = old.cycles
             /\ KilledRow(r).status \in {"ABSENT", "DRAFT"} => old.status = KilledRow(r).status
             /\ old.status \in EndedStatus => KilledRow(r).status = old.status
  BY <1>1, <1>2 DEF KilledRow, Session, SessionStatus, Open, EndedStatus
<1>4. \/ row = old \/ row = KilledRow(old) \/ row = KilledRow(counted)
      \/ row = counted /\ ~FailureLimit(s, failed)
  BY DEF ResultRow, counted
<1>. HIDE DEF row
<1>5. SessionRowMove(s, row)
  BY <1>1, <1>2, <1>3, <1>4 DEF SessionRowMove, SessionRowOK, EndedStatus
<1>6. row.status = "ACTIVE" => Has(s, "ACTIVE")
  BY <1>2, <1>3, <1>4 DEF Has
<1>7. row.reserved = old.reserved
  BY <1>2, <1>3, <1>4
<1>. QED BY <1>5, <1>6, <1>7 DEF Writes, GateResult, row

LEMMA ReserveWrites ==
    ASSUME RowsInv, NEW s \in Sessions, NEW i \in Intents, NEW w \in Owners, GateReserve(s, i, w)
    PROVE  \E row : Writes(s, row)
<1>. DEFINE old == sessions[s]
            row == ReservedRow(s, i)
<1>1. old \in Session /\ SessionRowOK(s, old) /\ Risk[i] \in Nat
  BY SessionConstants DEF RowsInv
<1>2. /\ SameClass(s, i) /\ old.status = "ACTIVE" /\ ~BudgetedElsewhere(s, i)
  BY DEF GateReserve, GatePasses, GateOpen, GateRunning, Has
<1>3. /\ row.status = old.status /\ row.reserved = old.reserved \cup {i} /\ row.failed = old.failed
  BY <1>1 DEF Session, ReservedRow
<1>4. row \in Session
  <2>1. /\ old.risk + Risk[i] \in Nat /\ old.opening + 1 \in Nat /\ old.closing + 1 \in Nat
        /\ old.reserved \cup {i} \in SUBSET Intents
    BY <1>1 DEF Session
  <2>2. CASE i \in Opening
    BY <1>1, <2>1, <2>2 DEF Session, ReservedRow
  <2>3. CASE i \notin Opening
    BY <1>1, <2>1, <2>3 DEF Session, ReservedRow
  <2>. QED BY <2>2, <2>3
<1>5. sessions' = [sessions EXCEPT ![s] = row]
  BY DEF GateReserve
<1>. HIDE DEF row
<1>6. SessionRowMove(s, row)
  BY <1>1, <1>2, <1>3, <1>4 DEF SessionRowMove, SessionRowOK, EndedStatus
<1>. QED BY <1>2, <1>3, <1>5, <1>6 DEF Writes, Has

-----------------------------------------------------------------------------
(* Calls that write several rows, or none.                                 *)

LEMMA SameRowsInv ==
    ASSUME RowsInv, UNCHANGED sessions
    PROVE  RowsInv' /\ \A t \in Sessions : SessionRowMove(t, sessions'[t])
BY DEF RowsInv, SessionRowOK, SessionRowMove, OneActiveSession, ReservedOnce, Has,
   SameClass, FailureLimit

\* The other lapsed sessions expire, so that the unique index admits this one.
LEMMA ActivateInv ==
    ASSUME RowsInv, NEW s \in Sessions, Activate(s)
    PROVE  RowsInv' /\ \A t \in Sessions : SessionRowMove(t, sessions'[t])
<1>1. /\ sessions \in [Sessions -> Session] /\ \A t \in Sessions : SessionRowOK(t, sessions[t])
      /\ sessions[s].status = "DRAFT" /\ ~OtherPaperActive(s) /\ sessions' = Activated(s)
  BY DEF RowsInv, Activate, Has
<1>2. ASSUME NEW t \in Sessions
      PROVE  /\ sessions'[t] \in Session
             /\ sessions'[t].reserved = sessions[t].reserved
             /\ sessions'[t].failed = sessions[t].failed
             /\ sessions'[t].cycles = sessions[t].cycles
             /\ t = s => sessions'[t].status = "ACTIVE"
             /\ t # s => \/ sessions'[t].status = sessions[t].status /\ ~(Has(t, "ACTIVE") /\ Lapsed(t))
                         \/ sessions'[t].status = "EXPIRED" /\ Has(t, "ACTIVE")
  <2>1. sessions[t] \in Session
    BY <1>1
  <2>2. CASE t = s
    BY <1>1, <2>1, <2>2 DEF Activated, Session, SessionStatus
  <2>3. CASE t # s /\ Has(t, "ACTIVE") /\ Lapsed(t)
    BY <1>1, <2>1, <2>3 DEF Activated, Expired, Session, SessionStatus
  <2>4. CASE t # s /\ ~(Has(t, "ACTIVE") /\ Lapsed(t))
    BY <1>1, <2>1, <2>4 DEF Activated
  <2>. QED BY <2>2, <2>3, <2>4
<1>3. sessions[s].failed = {} /\ ~FailureLimit(s, {})
  BY <1>1, NothingFailed DEF SessionRowOK
<1>4. ASSUME NEW t \in Sessions PROVE SessionRowMove(t, sessions'[t])
  BY <1>1, <1>2, <1>3 DEF SessionRowMove, SessionRowOK, Has, EndedStatus
<1>5. OneActiveSession'
  BY <1>1, <1>2, SessionConstants DEF RowsInv, OneActiveSession, OtherPaperActive, Has
<1>6. ReservedOnce'
  BY <1>2 DEF RowsInv, ReservedOnce
<1>7. sessions' \in [Sessions -> Session]
  BY <1>1, <1>2 DEF Activated
<1>8. \A t \in Sessions : SessionRowOK(t, sessions'[t])
  BY <1>4 DEF SessionRowMove
<1>. QED BY <1>4, <1>5, <1>6, <1>7, <1>8 DEF RowsInv, SessionRowOK, SameClass, FailureLimit

LEMMA SessionTickInv ==
    ASSUME RowsInv, SessionTick
    PROVE  RowsInv' /\ \A t \in Sessions : SessionRowMove(t, sessions'[t])
<1>. DEFINE Ticked(t) == [sessions[t] EXCEPT !.starts = Elapse(@), !.ttl = Elapse(@), !.next = Elapse(@)]
<1>1. sessions' = [t \in Sessions |-> Ticked(t)] /\ sessions \in [Sessions -> Session]
  BY DEF SessionTick, RowsInv
<1>2. ASSUME NEW t \in Sessions
      PROVE  /\ Ticked(t) \in Session /\ Ticked(t).status = sessions[t].status
             /\ Ticked(t).reserved = sessions[t].reserved /\ Ticked(t).failed = sessions[t].failed
             /\ Ticked(t).cycles = sessions[t].cycles
  <2>1. sessions[t] \in Session
    BY <1>1
  <2>2. /\ Elapse(sessions[t].starts) \in 0..SessionDelay
        /\ Elapse(sessions[t].ttl) \in 0..SessionTTL
        /\ Elapse(sessions[t].next) \in 0..Cadence
    BY <2>1, ElapseBound, SessionConstants DEF Session
  <2>. QED BY <2>1, <2>2 DEF Session
<1>. HIDE DEF Ticked
<1>3. \A t \in Sessions : SessionRowMove(t, sessions'[t])
  BY <1>1, <1>2 DEF RowsInv, SessionRowMove, SessionRowOK
<1>4. OneActiveSession' /\ ReservedOnce'
  BY <1>1, <1>2, SessionConstants DEF RowsInv, OneActiveSession, ReservedOnce, Has
<1>5. \A t \in Sessions : SessionRowOK(t, sessions'[t])
  BY <1>3 DEF SessionRowMove
<1>. QED BY <1>1, <1>2, <1>3, <1>4, <1>5 DEF RowsInv, SessionRowOK, SameClass, FailureLimit

LEMMA ControlInv ==
    ASSUME RowsInv, NEW s \in Sessions, SessionControl(s)
    PROVE  /\ RowsInv' /\ \A t \in Sessions : SessionRowMove(t, sessions'[t])
           /\ UNCHANGED intentVars
<1>1. CASE Activate(s)
  BY <1>1, ActivateInv DEF Activate
<1>2. CASE CreateSession(s) \/ ExpireSession(s)
  BY <1>2, CreateWrites, ExpireWrites, WritesInv DEF CreateSession, ExpireSession
<1>3. CASE Kill(s)
  BY <1>3, KillWrites, WritesInv DEF Kill
<1>4. CASE Finish(s)
  <2>1. \E row : Writes(s, row)
    BY <1>4, StatusWrites DEF Finish, EndedStatus
  <2>. QED BY <1>4, <2>1, WritesInv DEF Finish
<1>5. ASSUME NEW c \in Cycles, CycleStart(s, c) \/ CycleEnd(s, c)
      PROVE  /\ RowsInv' /\ \A t \in Sessions : SessionRowMove(t, sessions'[t])
             /\ UNCHANGED intentVars
  BY <1>5, CycleWrites, WritesInv DEF CycleStart, CycleEnd
<1>. QED BY <1>1, <1>2, <1>3, <1>4, <1>5 DEF SessionControl

-----------------------------------------------------------------------------
(* What the steps do to the intents.                                       *)

\* A step that does not fence i.
Quiet(i) == intents'[i].attempts = 1 => intents[i].attempts = 1

LEMMA WriteQuiet ==
    ASSUME IntentInv, NEW i \in Intents, NEW row, Write(i, row),
           row.attempts = 1 => intents[i].attempts = 1
    PROVE  \A j \in Intents : Quiet(j)
BY DEF IntentInv, Write, Quiet

LEMMA AdvancedQuiet ==
    ASSUME IntentInv, NEW i \in Intents, NEW target \in Status \ {"ABSENT"},
           NEW b \in OrderIds \cup {NoOrder}, Write(i, AdvancedRow(i, target, b))
    PROVE  \A j \in Intents : Quiet(j)
<1>1. AdvancedRow(i, target, b).attempts = intents[i].attempts
  BY AdvancedFields DEF IntentInv
<1>. QED BY <1>1, WriteQuiet

\* No call but the fence raises the attempts.
LEMMA UnfencedQuiet ==
    ASSUME IntentInv, NEW i \in Intents, NEW w \in Owners,
           \/ Create(i, w) \/ Claim(i, w) \/ BeginReconcile(i, w) \/ RejectLocally(i, w)
           \/ \E b \in OrderIds \cup {NoOrder} : MarkUnknown(i, w, b)
           \/ \E b \in OrderIds, target \in Terminal \cup {"SUBMITTED"} : Settle(i, w, target, b)
    PROVE  \A j \in Intents : Quiet(j)
<1>1. CASE Create(i, w)
  <2>1. CASE UNCHANGED intentVars
    BY <2>1 DEF intentVars, Quiet
  <2>2. ASSUME NEW c \in Cycles, NEW f \in 0..IntentTTL, CreateIntent(i, w, c, f)
        PROVE  \A j \in Intents : Quiet(j)
    <3>1. FreshRow("PENDING", c, f).attempts = 0
      BY DEF FreshRow
    <3>. QED BY <2>2, <3>1, WriteQuiet DEF CreateIntent
  <2>. QED BY <1>1, <2>1, <2>2 DEF Create, ReplayCreate
<1>2. CASE Claim(i, w)
  <2>0. intents[i] \in Row
    BY DEF IntentInv
  <2>1. CASE UNCHANGED intentVars
    BY <2>1 DEF intentVars, Quiet
  <2>2. CASE TakeClaim(i, w)
    <3>1. ClaimedRow(i, w).attempts = intents[i].attempts
      BY <2>0 DEF ClaimedRow, Row
    <3>. QED BY <2>2, <3>1, WriteQuiet DEF TakeClaim
  <2>3. CASE ExpireOrphan(i)
    <3>1. [intents[i] EXCEPT !.status = "EXPIRED", !.owner = NoOwner, !.claim = 0].attempts
             = intents[i].attempts
      BY <2>0 DEF Row
    <3>. QED BY <2>3, <3>1, WriteQuiet DEF ExpireOrphan
  <2>. QED BY <1>2, <2>1, <2>2, <2>3 DEF Claim, KeepClaim
<1>3. CASE BeginReconcile(i, w)
  BY <1>3, AdvancedQuiet DEF BeginReconcile, Status, Active
<1>4. CASE RejectLocally(i, w)
  BY <1>4, AdvancedQuiet DEF RejectLocally, Status, Terminal
<1>5. ASSUME NEW b \in OrderIds \cup {NoOrder}, MarkUnknown(i, w, b)
      PROVE  \A j \in Intents : Quiet(j)
  BY <1>5, AdvancedQuiet DEF MarkUnknown, Status, Active
<1>6. ASSUME NEW b \in OrderIds, NEW target \in Terminal \cup {"SUBMITTED"}, Settle(i, w, target, b)
      PROVE  \A j \in Intents : Quiet(j)
  BY <1>6, AdvancedQuiet DEF Settle, Status, Terminal, Active
<1>. QED BY <1>1, <1>2, <1>3, <1>4, <1>5, <1>6

LEMMA TickQuiet == ASSUME IntentInv, IntentTick PROVE \A j \in Intents : Quiet(j)
BY TickRows DEF SameButClock, Quiet

\* The fence of i as the gate lets it through, or of an intent that no session budgets.
FencedSafely(i) ==
    /\ UNCHANGED sessions
    /\ \/ i \notin Paper /\ \A s \in Sessions : i \notin sessions[s].reserved
       \/ \E s \in Sessions :
             /\ i \in sessions[s].reserved /\ SameClass(s, i) /\ Has(s, "ACTIVE")
             /\ sessions[s].ttl >= SendMargin /\ ~UnknownOrder(s)

LEMMA FenceOthersQuiet ==
    ASSUME IntentInv, NEW i \in Intents, NEW w \in Owners, NEW p, Fence(i, w, p)
    PROVE  \A j \in Intents \ {i} : Quiet(j)
BY DEF IntentInv, Fence, Write, Quiet

LEMMA SubmitSafe ==
    ASSUME IntentInv, NEW s \in Sessions, NEW i \in Intents, NEW w \in Owners, NEW p,
           GateSubmit(s, i, w, p)
    PROVE  \A j \in Intents : Quiet(j) \/ FencedSafely(j)
<1>1. FencedSafely(i)
  BY DEF GateSubmit, GatePasses, GateOpen, GateRunning, Submittable, FencedSafely
<1>. QED BY <1>1, FenceOthersQuiet DEF GateSubmit

LEMMA GateInv ==
    ASSUME IntentInv, RowsInv, NEW s \in Sessions, NEW i \in Intents, NEW w \in Owners, Gate(s, i, w)
    PROVE  /\ UNCHANGED intentVars \/ Advance(i, w)
           /\ RowsInv' /\ \A t \in Sessions : SessionRowMove(t, sessions'[t])
           /\ \A j \in Intents : Quiet(j) \/ FencedSafely(j)
<1>0. ASSUME UNCHANGED intentVars PROVE \A j \in Intents : Quiet(j)
  BY <1>0 DEF intentVars, Quiet
<1>1. CASE GateKill(s, i, w)
  <2>1. sessions[s].status \in Open
    BY <1>1 DEF GateKill, GateOpen, GateRunning, Has, Open
  <2>. QED BY <1>0, <1>1, <2>1, KillWrites, WritesInv DEF GateKill
<1>2. CASE GateReserve(s, i, w)
  BY <1>0, <1>2, ReserveWrites, WritesInv DEF GateReserve
<1>3. CASE GateReplay(s, i, w)
  BY <1>0, <1>3, SameRowsInv DEF GateReplay, sessionVars
<1>4. ASSUME NEW p \in 0..1, GateSubmit(s, i, w, p)
      PROVE  /\ Advance(i, w)
             /\ RowsInv' /\ \A t \in Sessions : SessionRowMove(t, sessions'[t])
             /\ \A j \in Intents : Quiet(j) \/ FencedSafely(j)
  BY <1>4, SubmitSafe, SameRowsInv DEF GateSubmit, Advance
<1>. QED BY <1>1, <1>2, <1>3, <1>4 DEF Gate

LEMMA OutsideGateInv ==
    ASSUME IntentInv, RowsInv, NEW i \in Intents, NEW w \in Owners, UNCHANGED sessions,
           Create(i, w) \/ Claim(i, w) \/ AdvanceOutsideGate(i, w)
    PROVE  /\ Create(i, w) \/ Claim(i, w) \/ Advance(i, w)
           /\ RowsInv' /\ \A t \in Sessions : SessionRowMove(t, sessions'[t])
           /\ \A j \in Intents : Quiet(j) \/ FencedSafely(j)
<1>1. CASE /\ i \notin Paper /\ \A s \in Sessions : i \notin sessions[s].reserved
           /\ Fence(i, w, 1)
  BY <1>1, FenceOthersQuiet, SameRowsInv DEF FencedSafely, Advance
<1>2. CASE Create(i, w) \/ Claim(i, w)
  BY <1>2, UnfencedQuiet, SameRowsInv
<1>3. CASE \/ BeginReconcile(i, w) \/ RejectLocally(i, w)
           \/ \E b \in OrderIds \cup {NoOrder} : MarkUnknown(i, w, b)
           \/ \E b \in OrderIds, target \in Terminal \cup {"SUBMITTED"} : Settle(i, w, target, b)
  BY <1>3, UnfencedQuiet, SameRowsInv DEF Advance
<1>. QED BY <1>1, <1>2, <1>3 DEF AdvanceOutsideGate

\* Every step is one of the intents' specification or leaves them alone, moves the rows
\* as they may, and fences safely if it fences.
LEMMA SessionStep ==
    ASSUME SessionInv, [SessionNext]_sessionVars
    PROVE  /\ [IntentNext]_intentVars
           /\ RowsInv' /\ \A t \in Sessions : SessionRowMove(t, sessions'[t])
           /\ \A j \in Intents : Quiet(j) \/ FencedSafely(j)
<1>. USE DEF SessionInv
<1>0. ASSUME UNCHANGED intentVars PROVE \A j \in Intents : Quiet(j)
  BY <1>0 DEF intentVars, Quiet
<1>1. CASE LeaseStep /\ UNCHANGED sessions
  BY <1>1, SameRowsInv DEF LeaseStep, IntentNext, Quiet
<1>2. CASE SessionTick
  BY <1>2, SessionTickInv, TickQuiet DEF SessionTick, IntentNext
<1>3. ASSUME NEW i \in Intents, NEW w \in Owners, UNCHANGED sessions,
             Create(i, w) \/ Claim(i, w) \/ AdvanceOutsideGate(i, w)
      PROVE  /\ IntentNext
             /\ RowsInv' /\ \A t \in Sessions : SessionRowMove(t, sessions'[t])
             /\ \A j \in Intents : Quiet(j) \/ FencedSafely(j)
  BY <1>3, OutsideGateInv DEF IntentNext
<1>4. ASSUME NEW s \in Sessions, SessionControl(s)
      PROVE  /\ UNCHANGED intentVars
             /\ RowsInv' /\ \A t \in Sessions : SessionRowMove(t, sessions'[t])
  BY <1>4, ControlInv
<1>5. ASSUME NEW s \in Sessions, NEW i \in Intents, GateResult(s, i)
      PROVE  /\ UNCHANGED intentVars
             /\ RowsInv' /\ \A t \in Sessions : SessionRowMove(t, sessions'[t])
  BY <1>5, ResultWrites, WritesInv DEF GateResult
<1>6. ASSUME NEW s \in Sessions, NEW i \in Intents, NEW w \in Owners, Gate(s, i, w)
      PROVE  /\ [IntentNext]_intentVars
             /\ RowsInv' /\ \A t \in Sessions : SessionRowMove(t, sessions'[t])
             /\ \A j \in Intents : Quiet(j) \/ FencedSafely(j)
  <2>1. /\ UNCHANGED intentVars \/ Advance(i, w)
        /\ RowsInv' /\ \A t \in Sessions : SessionRowMove(t, sessions'[t])
        /\ \A j \in Intents : Quiet(j) \/ FencedSafely(j)
    BY <1>6, GateInv
  <2>. QED BY <2>1 DEF IntentNext
<1>7. CASE UNCHANGED sessionVars
  BY <1>0, <1>7, SameRowsInv DEF sessionVars
<1>. QED BY <1>0, <1>1, <1>2, <1>3, <1>4, <1>5, <1>6, <1>7 DEF SessionNext

LEMMA SessionNextInv == SessionInv /\ [SessionNext]_sessionVars => SessionInv'
<1>. SUFFICES ASSUME SessionInv, [SessionNext]_sessionVars PROVE SessionInv'
  OBVIOUS
<1>1. IntentInv' /\ RowsInv'
  BY SessionStep, IntentNextInv DEF SessionInv
<1>2. PaperReserved'
  <2>. SUFFICES ASSUME NEW i \in Paper, intents'[i].attempts = 1
                PROVE  \E s \in Sessions : i \in sessions'[s].reserved
    BY DEF PaperReserved
  <2>1. i \in Intents
    BY IntentConstants
  <2>2. CASE Quiet(i)
    <3>1. PICK s \in Sessions : i \in sessions[s].reserved
      BY <2>2 DEF Quiet, SessionInv, PaperReserved
    <3>. QED BY <3>1, SessionStep DEF SessionRowMove
  <2>3. CASE FencedSafely(i)
    BY <2>3 DEF FencedSafely
  <2>. QED BY <2>1, <2>2, <2>3, SessionStep
<1>. QED BY <1>1, <1>2 DEF SessionInv

LEMMA SessionAlways == SessionSpec => []SessionInv
BY SessionInitInv, SessionNextInv, PTL DEF SessionSpec

\* Every reachable row of the three tables is well typed.
THEOREM SessionTypeCorrect == SessionSpec => []SessionTypeOK
<1>1. SessionInv => SessionTypeOK
  BY DEF SessionInv, RowsInv, IntentInv, LeaseInv, IntentTypeOK, SessionTypeOK
<1>. QED BY <1>1, SessionAlways, PTL

\* Sessions only restrict the intents: whatever holds of the intents under any client
\* holds of them under sessions.
THEOREM SessionsImplementIntents == SessionSpec => IntentSpec
<1>1. SessionInit => IntentInit
  BY DEF SessionInit
<1>2. SessionInv /\ [SessionNext]_sessionVars => [IntentNext]_intentVars
  BY SessionStep
<1>. QED BY <1>1, <1>2, SessionAlways, PTL DEF SessionSpec, IntentSpec

\* A fenced PAPER intent was paid for by exactly one session.
THEOREM FencedPaidOnce == SessionSpec => []FencedIsBudgeted
<1>1. SessionInv => FencedIsBudgeted
  <2>. SUFFICES ASSUME SessionInv, NEW i \in Paper, intents[i].attempts = 1
                PROVE  Cardinality({s \in Sessions : i \in sessions[s].reserved}) = 1
    BY DEF FencedIsBudgeted
  <2>1. PICK s \in Sessions : i \in sessions[s].reserved
    BY DEF SessionInv, PaperReserved
  <2>2. {t \in Sessions : i \in sessions[t].reserved} = {s}
    BY <2>1, IntentConstants DEF SessionInv, RowsInv, ReservedOnce
  <2>. QED BY <2>2, FS_Singleton
<1>. QED BY <1>1, SessionAlways, PTL

\* A session whose failures reached its limit is not active.
THEOREM FailuresEnd == SessionSpec => []FailuresKill
<1>1. SessionInv => FailuresKill
  BY DEF SessionInv, RowsInv, SessionRowOK, FailureLimit, FailuresKill, Has
<1>. QED BY <1>1, SessionAlways, PTL

\* At most one PAPER session is active.
THEOREM ActiveAlone == SessionSpec => []OneActiveSession
<1>1. SessionInv => OneActiveSession
  BY DEF SessionInv, RowsInv
<1>. QED BY <1>1, SessionAlways, PTL

\* An order is fenced by the active session that paid for it, with time left and no
\* unknown order of its own.
THEOREM FencesSafely == SessionSpec => FencedOnlyWhenSafe
<1>. DEFINE Safe(i) ==
       intents[i].attempts = 0 /\ intents'[i].attempts = 1 =>
         /\ i \in Paper => \E s \in PaperSessions : i \in sessions[s].reserved
         /\ \A s \in Sessions : i \in sessions[s].reserved =>
               /\ Has(s, "ACTIVE")
               /\ sessions[s].ttl >= SendMargin
               /\ \A j \in sessions[s].reserved : intents[j].status # "UNKNOWN"
<1>1. ASSUME SessionInv, [SessionNext]_sessionVars, NEW i \in Intents,
             intents[i].attempts = 0, intents'[i].attempts = 1
      PROVE  Safe(i)
  <2>1. FencedSafely(i)
    BY <1>1, SessionStep DEF Quiet
  <2>2. CASE i \notin Paper /\ \A s \in Sessions : i \notin sessions[s].reserved
    BY <2>2
  <2>3. ASSUME NEW s \in Sessions, i \in sessions[s].reserved, SameClass(s, i),
               Has(s, "ACTIVE"), sessions[s].ttl >= SendMargin, ~UnknownOrder(s)
        PROVE  Safe(i)
    <3>1. \A t \in Sessions : i \in sessions[t].reserved => t = s
      BY <1>1, <2>3 DEF SessionInv, RowsInv, ReservedOnce
    <3>2. i \in Paper => s \in PaperSessions
      BY <2>3 DEF SameClass
    <3>3. ASSUME NEW j \in sessions[s].reserved PROVE intents[j].status # "UNKNOWN"
      <4>1. j \in Intents /\ SameClass(s, j)
        BY <1>1 DEF SessionInv, RowsInv, SessionRowOK, Session
      <4>. QED BY <2>3, <4>1 DEF UnknownOrder
    <3>. QED BY <2>3, <3>1, <3>2, <3>3
  <2>. QED BY <2>1, <2>2, <2>3 DEF FencedSafely
<1>2. SessionInv /\ [SessionNext]_sessionVars => [\A i \in Intents : Safe(i)]_sessionVars
  BY <1>1
<1>. QED BY <1>2, SessionAlways, PTL DEF SessionSpec, FencedOnlyWhenSafe

\* An ended session stays as it is.
THEOREM EndedStaysEnded == SessionSpec => EndedIsFinal
<1>. DEFINE Final(s) == sessions[s].status \in {"EXPIRED", "KILLED", "COMPLETED"} =>
         /\ sessions'[s].status = sessions[s].status
         /\ sessions'[s].reserved = sessions[s].reserved
         /\ sessions'[s].cycles = sessions[s].cycles
<1>1. SessionInv /\ [SessionNext]_sessionVars => [\A s \in Sessions : Final(s)]_sessionVars
  BY SessionStep DEF SessionRowMove, EndedStatus
<1>. QED BY <1>1, SessionAlways, PTL DEF SessionSpec, EndedIsFinal
-----------------------------------------------------------------------------
(* The budget.                                                             *)

\* The counters of a row are the ledger of what it reserved, within the bounds of s.
RowLedger(s, row) ==
    /\ IsFiniteSet(row.reserved) /\ IsFiniteSet(row.cycles)
    /\ row.opening = Cardinality(row.reserved \cap Opening)
    /\ row.closing = Cardinality(row.reserved \ Opening)
    /\ row.risk = Total(Risk, row.reserved)
    /\ row.opening <= Limits[s].opening
    /\ row.closing <= Limits[s].closing
    /\ row.opening + row.closing <= Limits[s].total
    /\ row.risk <= Limits[s].risk
    /\ Cardinality(row.cycles) <= Limits[s].cycles

LedgerInv == \A s \in Sessions : RowLedger(s, sessions[s])

\* A row that spends nothing.
SameBudget(s, row) ==
    /\ row.reserved = sessions[s].reserved /\ row.cycles = sessions[s].cycles
    /\ row.opening = sessions[s].opening /\ row.closing = sessions[s].closing
    /\ row.risk = sessions[s].risk

LEMMA EmptyLedger ==
    ASSUME NEW s \in Sessions, NEW row, row.reserved = {}, row.cycles = {},
           row.opening = 0, row.closing = 0, row.risk = 0
    PROVE  RowLedger(s, row)
<1>1. /\ Limits[s].opening \in Nat /\ Limits[s].closing \in Nat /\ Limits[s].total \in Nat
      /\ Limits[s].risk \in Nat /\ Limits[s].cycles \in Nat
  BY SessionConstants DEF Limit
<1>2. Total(Risk, {}) = 0
  BY FS_EmptySet, TotalUnrolls
<1>3. {} \cap Opening = {} /\ {} \ Opening = {}
  OBVIOUS
<1>. QED BY <1>1, <1>2, <1>3, FS_EmptySet DEF RowLedger

\* Whatever RESERVE adds was not reserved, and fits.
LEMMA ReserveLedger ==
    ASSUME RowsInv, LedgerInv, NEW s \in Sessions, NEW i \in Intents, NEW w \in Owners,
           GateReserve(s, i, w)
    PROVE  RowLedger(s, ReservedRow(s, i))
<1>. DEFINE old == sessions[s]
            row == ReservedRow(s, i)
            R == old.reserved
<1>1. /\ old \in Session /\ RowLedger(s, old) /\ i \notin R /\ BudgetLeft(s, i)
  BY DEF RowsInv, LedgerInv, GateReserve
<1>2. /\ row.reserved = R \cup {i} /\ row.cycles = old.cycles /\ row.risk = old.risk + Risk[i]
      /\ row.opening = (IF i \in Opening THEN old.opening + 1 ELSE old.opening)
      /\ row.closing = (IF i \in Opening THEN old.closing ELSE old.closing + 1)
  BY <1>1 DEF Session, ReservedRow
<1>. HIDE DEF row
<1>3. IsFiniteSet(R) /\ IsFiniteSet(R \cup {i}) /\ IsFiniteSet(R \cap Opening) /\ IsFiniteSet(R \ Opening)
  BY <1>1, FS_AddElement, FS_Intersection, FS_Difference DEF RowLedger
<1>4. Total(Risk, R \cup {i}) = Risk[i] + Total(Risk, R)
  <2>1. R \cup {i} \in SUBSET (R \cup {i}) /\ (R \cup {i}) \ {i} = R
    BY <1>1
  <2>2. \A x \in R \cup {i} : Risk[x] \in Int
    BY <1>1, SessionConstants DEF Session
  <2>. QED BY <1>3, <2>1, <2>2, TotalTakes
<1>5. Cardinality((R \cup {i}) \cap Opening) = row.opening
  <2>1. CASE i \in Opening
    <3>1. (R \cup {i}) \cap Opening = (R \cap Opening) \cup {i}
      BY <2>1
    <3>2. Cardinality((R \cap Opening) \cup {i}) = Cardinality(R \cap Opening) + 1
      BY <1>1, <1>3, FS_AddElement
    <3>. QED BY <1>1, <1>2, <2>1, <3>1, <3>2 DEF RowLedger
  <2>2. CASE i \notin Opening
    <3>1. (R \cup {i}) \cap Opening = R \cap Opening
      BY <2>2
    <3>. QED BY <1>1, <1>2, <2>2, <3>1 DEF RowLedger
  <2>. QED BY <2>1, <2>2
<1>6. Cardinality((R \cup {i}) \ Opening) = row.closing
  <2>1. CASE i \in Opening
    <3>1. (R \cup {i}) \ Opening = R \ Opening
      BY <2>1
    <3>. QED BY <1>1, <1>2, <2>1, <3>1 DEF RowLedger
  <2>2. CASE i \notin Opening
    <3>1. (R \cup {i}) \ Opening = (R \ Opening) \cup {i}
      BY <2>2
    <3>2. Cardinality((R \ Opening) \cup {i}) = Cardinality(R \ Opening) + 1
      BY <1>1, <1>3, FS_AddElement
    <3>. QED BY <1>1, <1>2, <2>2, <3>1, <3>2 DEF RowLedger
  <2>. QED BY <2>1, <2>2
<1>7. /\ Limits[s].opening \in Nat /\ Limits[s].closing \in Nat /\ Limits[s].total \in Nat
      /\ Limits[s].risk \in Nat /\ Risk[i] \in Nat
      /\ old.opening \in Nat /\ old.closing \in Nat /\ old.risk \in Nat
  BY <1>1, SessionConstants DEF Limit, Session
<1>8. /\ row.opening <= Limits[s].opening /\ row.closing <= Limits[s].closing
      /\ row.opening + row.closing <= Limits[s].total /\ row.risk <= Limits[s].risk
  BY <1>1, <1>2, <1>7 DEF RowLedger, BudgetLeft, OrdersConsumed
<1>9. row.risk = Total(Risk, row.reserved)
  BY <1>1, <1>2, <1>4, <1>7 DEF RowLedger
<1>10. IsFiniteSet(row.cycles) /\ Cardinality(row.cycles) <= Limits[s].cycles
  BY <1>1, <1>2 DEF RowLedger
<1>11. RowLedger(s, row)
  BY <1>2, <1>3, <1>5, <1>6, <1>8, <1>9, <1>10 DEF RowLedger
<1>. QED BY <1>11 DEF row

\* CYCLE_START adds a cycle while the bound is not reached.
LEMMA StartLedger ==
    ASSUME RowsInv, LedgerInv, NEW s \in Sessions, NEW c \in Cycles, CycleStart(s, c)
    PROVE  RowLedger(s, [sessions[s] EXCEPT !.cycles = @ \cup {c}, !.next = Cadence])
<1>. DEFINE old == sessions[s]
            row == [sessions[s] EXCEPT !.cycles = @ \cup {c}, !.next = Cadence]
<1>1. /\ old \in Session /\ RowLedger(s, old) /\ c \notin old.cycles /\ CycleAllowed(s)
  BY DEF RowsInv, LedgerInv, CycleStart
<1>2. /\ row.reserved = old.reserved /\ row.opening = old.opening /\ row.closing = old.closing
      /\ row.risk = old.risk /\ row.cycles = old.cycles \cup {c}
  BY <1>1 DEF Session
<1>. HIDE DEF row
<1>3. /\ IsFiniteSet(old.cycles \cup {c})
      /\ Cardinality(old.cycles \cup {c}) = Cardinality(old.cycles) + 1
  BY <1>1, FS_AddElement DEF RowLedger
<1>4. Cardinality(old.cycles) \in Nat /\ Limits[s].cycles \in Nat
  BY <1>1, SessionConstants, FS_CardinalityType DEF RowLedger, Limit
<1>5. Cardinality(row.cycles) <= Limits[s].cycles
  BY <1>1, <1>2, <1>3, <1>4 DEF CycleAllowed
<1>6. RowLedger(s, row)
  BY <1>1, <1>2, <1>3, <1>5 DEF RowLedger
<1>. QED BY <1>6 DEF row

\* Every other call spends nothing.
LEMMA ControlLedger ==
    ASSUME RowsInv, LedgerInv, NEW s \in Sessions, SessionControl(s)
    PROVE  LedgerInv'
<1>. SUFFICES ASSUME NEW t \in Sessions PROVE RowLedger(t, sessions'[t])
  BY DEF LedgerInv, RowLedger
<1>0. sessions \in [Sessions -> Session] /\ RowLedger(t, sessions[t]) /\ sessions[t] \in Session
  BY DEF RowsInv, LedgerInv
<1>1. ASSUME SameBudget(t, sessions'[t]) PROVE RowLedger(t, sessions'[t])
  BY <1>0, <1>1 DEF SameBudget, RowLedger
<1>2. CASE CreateSession(s)
  <2>1. CASE t = s
    <3>. DEFINE row == [NoSession EXCEPT !.status = "DRAFT", !.starts = SessionDelay, !.ttl = SessionTTL]
    <3>1. row.reserved = {} /\ row.cycles = {} /\ row.opening = 0 /\ row.closing = 0 /\ row.risk = 0
      BY DEF NoSession
    <3>2. sessions'[t] = row
      BY <1>0, <1>2, <2>1 DEF CreateSession
    <3>. QED BY <3>1, <3>2, EmptyLedger
  <2>2. CASE t # s
    BY <1>0, <1>1, <1>2, <2>2 DEF CreateSession, SameBudget
  <2>. QED BY <2>1, <2>2
<1>3. CASE ExpireSession(s) \/ Kill(s) \/ Finish(s)
  <2>1. PICK status : sessions' = [sessions EXCEPT ![s].status = status]
    <3>1. CASE ExpireSession(s)
      BY <3>1 DEF ExpireSession, Expired
    <3>2. CASE Kill(s)
      BY <3>2 DEF Kill, KilledRow
    <3>3. CASE Finish(s)
      BY <3>3 DEF Finish
    <3>. QED BY <1>3, <3>1, <3>2, <3>3
  <2>. QED BY <1>0, <1>1, <2>1 DEF SameBudget, Session
<1>4. CASE Activate(s)
  <2>1. \/ sessions'[t] = sessions[t]
        \/ \E status : sessions'[t] = [sessions[t] EXCEPT !.status = status]
    BY <1>0, <1>4 DEF Activate, Activated, Expired
  <2>. QED BY <1>0, <1>1, <2>1 DEF SameBudget, Session
<1>5. ASSUME NEW c \in Cycles, CycleStart(s, c) PROVE RowLedger(t, sessions'[t])
  <2>1. CASE t = s
    <3>1. sessions'[t] = [sessions[s] EXCEPT !.cycles = @ \cup {c}, !.next = Cadence]
      BY <1>0, <1>5, <2>1 DEF CycleStart
    <3>. QED BY <1>5, <2>1, <3>1, StartLedger
  <2>2. CASE t # s
    BY <1>0, <1>1, <1>5, <2>2 DEF CycleStart, SameBudget
  <2>. QED BY <2>1, <2>2
<1>6. ASSUME NEW c \in Cycles, CycleEnd(s, c) PROVE RowLedger(t, sessions'[t])
  BY <1>0, <1>1, <1>6 DEF CycleEnd, SameBudget, Session
<1>. QED BY <1>2, <1>3, <1>4, <1>5, <1>6 DEF SessionControl

LEMMA LedgerNextInv ==
    ASSUME RowsInv, LedgerInv, [SessionNext]_sessionVars
    PROVE  LedgerInv'
<1>. SUFFICES ASSUME NEW t \in Sessions PROVE RowLedger(t, sessions'[t])
  BY DEF LedgerInv, RowLedger
<1>0. sessions \in [Sessions -> Session] /\ RowLedger(t, sessions[t]) /\ sessions[t] \in Session
  BY DEF RowsInv, LedgerInv
<1>1. ASSUME SameBudget(t, sessions'[t]) PROVE RowLedger(t, sessions'[t])
  BY <1>0, <1>1 DEF SameBudget, RowLedger
<1>2. CASE UNCHANGED sessions
  BY <1>1, <1>2 DEF SameBudget
<1>3. CASE SessionTick
  BY <1>0, <1>1, <1>3 DEF SessionTick, SameBudget, Session
<1>4. ASSUME NEW s \in Sessions, SessionControl(s) PROVE RowLedger(t, sessions'[t])
  BY <1>4, ControlLedger DEF LedgerInv
<1>5. ASSUME NEW s \in Sessions, NEW i \in Intents, GateResult(s, i) PROVE RowLedger(t, sessions'[t])
  <2>1. SameBudget(s, ResultRow(s, i))
    <3>1. sessions[s] \in Session
      BY <1>0
    <3>. QED BY <3>1 DEF ResultRow, KilledRow, SameBudget, Session
  <2>2. SameBudget(t, sessions'[t])
    BY <1>0, <1>5, <2>1 DEF GateResult, SameBudget
  <2>. QED BY <1>1, <2>2
<1>6. ASSUME NEW s \in Sessions, NEW i \in Intents, NEW w \in Owners, Gate(s, i, w)
      PROVE  RowLedger(t, sessions'[t])
  <2>1. CASE GateKill(s, i, w)
    <3>1. PICK status : sessions' = [sessions EXCEPT ![s].status = status]
      BY <1>0, <2>1 DEF GateKill, KilledRow, GateOpen, GateRunning, Has, Open
    <3>. QED BY <1>0, <1>1, <3>1 DEF SameBudget, Session
  <2>2. CASE GateReserve(s, i, w)
    <3>1. CASE t = s
      <4>1. sessions'[t] = ReservedRow(s, i)
        BY <1>0, <2>2, <3>1 DEF GateReserve
      <4>. QED BY <2>2, <3>1, <4>1, ReserveLedger
    <3>2. CASE t # s
      BY <1>0, <1>1, <2>2, <3>2 DEF GateReserve, SameBudget
    <3>. QED BY <3>1, <3>2
  <2>3. CASE GateReplay(s, i, w) \/ \E p \in 0..1 : GateSubmit(s, i, w, p)
    BY <1>2, <2>3 DEF GateReplay, GateSubmit, sessionVars
  <2>. QED BY <1>6, <2>1, <2>2, <2>3 DEF Gate
<1>7. CASE UNCHANGED sessionVars
  BY <1>2, <1>7 DEF sessionVars
<1>. QED BY <1>2, <1>3, <1>4, <1>5, <1>6, <1>7 DEF SessionNext

\* The ledgers add up in every reachable state.
LEMMA LedgerAlways == SessionSpec => []LedgerInv
<1>1. SessionInit => LedgerInv
  <2>1. \A s \in Sessions : RowLedger(s, NoSession)
    BY EmptyLedger DEF NoSession
  <2>. QED BY <2>1 DEF SessionInit, LedgerInv
<1>2. SessionInv /\ LedgerInv /\ [SessionNext]_sessionVars => LedgerInv'
  BY LedgerNextInv DEF SessionInv
<1>. QED BY <1>1, <1>2, SessionAlways, PTL DEF SessionSpec

\* Every counter of a session is what it reserved, its risk the sum of the risks of these
\* intents, all within its document, for any number of intents and any interleaving of
\* RESERVE with kills, rejections and crashes: nothing is refunded, nothing spent twice.
THEOREM BudgetIsLedger == SessionSpec => []BudgetLedger
<1>1. LedgerInv => BudgetLedger
  BY DEF LedgerInv, RowLedger, BudgetLedger, OrdersConsumed, Total
<1>. QED BY <1>1, LedgerAlways, PTL

\* A part of what a session reserved costs no more than all of it.
LEMMA SubtotalAtMost ==
    ASSUME NEW S, IsFiniteSet(S), NEW f, \A x \in S : f[x] \in Nat, NEW R \in SUBSET S
    PROVE  Total(f, R) <= Total(f, S)
<1>. DEFINE Bad == {Q \in SUBSET S : R \subseteq Q /\ ~ (Total(f, R) <= Total(f, Q))}
<1>1. Bad \in SUBSET (SUBSET S)
  OBVIOUS
<1>2. SUFFICES ASSUME Bad # {} PROVE FALSE
  OBVIOUS
<1>3. PICK Q \in Bad : IsFiniteSet(Q) /\ \A P \in Bad : P \subseteq Q => P = Q
  <2>. HIDE DEF Bad
  <2>. QED BY <1>1, <1>2, LeastSet
<1>4. \A P \in SUBSET S : Total(f, P) \in Int
  BY TotalType
<1>5. PICK x \in Q : x \notin R
  <2>1. Q # R
    BY <1>4
  <2>. QED BY <2>1
<1>6. Total(f, R) <= Total(f, Q \ {x})
  BY <1>3, <1>5
<1>7. Total(f, Q) = f[x] + Total(f, Q \ {x})
  BY <1>5, TotalTakes
<1>8. Q \in SUBSET S /\ Q \ {x} \in SUBSET S /\ f[x] \in Nat
  BY <1>3
<1>9. /\ Total(f, R) \in Int /\ Total(f, Q) \in Int /\ Total(f, Q \ {x}) \in Int
      /\ ~ (Total(f, R) <= Total(f, Q))
  BY <1>4, <1>8
<1>. QED BY <1>6, <1>7, <1>8, <1>9
=============================================================================

---------------------------- MODULE Dispatch_proofs ----------------------------
(***************************************************************************)
(* For any number of workers, intents and sessions, whatever crashes, is   *)
(* delayed or lost: an intent is posted at most once, one order at a time  *)
(* is on its way or working, and a terminal row tells the truth.           *)
(***************************************************************************)
EXTENDS Dispatch, ExecutionSessions_proofs

\* From the lookup that found no order to the fence.
Before == {"refresh", "validate", "preflight", "submit"}
\* Between the fence and the request.
Sending == {"window", "post"}
\* Where the session of the dispatch is still needed.
Paying == {"reserve", "lookup"} \cup Before

\* What a worker knows at its step.  No order: nobody else has posted, or the row is
\* fenced and this worker will be denied.
WorkerOK(w) ==
    LET q == worker[w] IN
    /\ q \in Worker
    /\ q.pc \notin {"idle", "done"} => q.intent \in Paper
    /\ q.pc \in Paying => q.session \in Sessions
    /\ q.pc \in Before => orders[q.intent] = "none" \/ intents[q.intent].attempts = 1
    /\ q.pc \in Sending =>
          /\ intents[q.intent].attempts = 1 /\ posts[q.intent] = 0
          /\ orders[q.intent] = "none" /\ q.intent \notin wire
    /\ q.pc = "record" => q.seen # "none" /\ (q.seen \in Terminal => orders[q.intent] = q.seen)

SenderAlone == \A v, w \in Owners :
    /\ worker[v].pc \in Sending /\ worker[w].pc \in Sending
    /\ worker[v].intent = worker[w].intent
    => v = w

\* How a row, its POSTs and its order at the broker fit.
IntentOK(i) ==
    /\ posts[i] \in Nat /\ posts[i] <= intents[i].attempts
    /\ orders[i] \in OrderStates
    /\ i \in wire => posts[i] = 1 /\ orders[i] = "none"
    /\ posts[i] > 0 => i \in Paper
    /\ Unsent(i) => ~intents[i].evidence
    /\ intents[i].status \in Terminal /\ intents[i].evidence => orders[i] = intents[i].status

DispatchInv ==
    /\ SessionInv
    /\ worker \in [Owners -> Worker]
    /\ posts \in [Intents -> Nat] /\ orders \in [Intents -> OrderStates] /\ wire \subseteq Intents
    /\ \A w \in Owners : WorkerOK(w)
    /\ SenderAlone
    /\ \A i \in Intents : IntentOK(i)

LEMMA DispatchBounds == 0 \in 0..PreflightTTL /\ PreflightTTL \in 0..PreflightTTL
BY DispatchConstants

LEMMA AtRestOK == ASSUME NEW pc \in {"idle", "done"} PROVE AtRest(pc) \in Worker /\ AtRest(pc).pc = pc
BY DispatchBounds DEF AtRest, Worker, DispatchPcs, OrderStates

LEMMA DispatchInitInv == DispatchInit => DispatchInv
<1>. SUFFICES ASSUME DispatchInit PROVE DispatchInv
  OBVIOUS
<1>1. SessionInv
  BY SessionInitInv DEF DispatchInit
<1>2. \A w \in Owners : worker[w] = AtRest("idle")
  BY DEF DispatchInit
<1>3. \A w \in Owners : WorkerOK(w)
  BY <1>2, AtRestOK DEF WorkerOK, Paying, Before, Sending
<1>4. SenderAlone
  BY <1>2, AtRestOK DEF SenderAlone, Sending
<1>5. worker \in [Owners -> Worker]
  BY AtRestOK DEF DispatchInit
<1>6. /\ posts = [i \in Intents |-> 0] /\ wire = {}
      /\ \E old \in SUBSET Intents : orders = [i \in Intents |-> IF i \in old THEN "open" ELSE "none"]
  BY DEF DispatchInit
<1>7. posts \in [Intents -> Nat] /\ orders \in [Intents -> OrderStates] /\ wire \subseteq Intents
  BY <1>6 DEF OrderStates
<1>8. ASSUME NEW i \in Intents PROVE IntentOK(i)
  <2>1. intents[i] = NoRow
    BY DEF DispatchInit, SessionInit, IntentInit
  <2>2. intents[i].status = "ABSENT" /\ intents[i].attempts = 0 /\ intents[i].evidence = FALSE
    BY <2>1 DEF NoRow, FreshRow
  <2>. QED BY <1>6, <1>7, <2>2 DEF IntentOK, Unsent, Terminal
<1>. QED BY <1>1, <1>3, <1>4, <1>5, <1>7, <1>8 DEF DispatchInv

-----------------------------------------------------------------------------
(* What a step may make of a row, and of the worker that takes it.         *)

RowStep(i) ==
    /\ intents[i].attempts = 1 => intents'[i].attempts = 1
    /\ intents'[i].status \in {"PENDING", "CLAIMED"} => ~intents'[i].evidence
    /\ intents'[i].status \in Terminal /\ intents'[i].evidence => orders[i] = intents'[i].status

LEMMA SameRows == ASSUME DispatchInv, UNCHANGED intents PROVE \A i \in Intents : RowStep(i)
BY DEF DispatchInv, IntentOK, Unsent, RowStep

LEMMA RowsKept ==
    ASSUME DispatchInv, UNCHANGED brokerVars, SessionInv', \A i \in Intents : RowStep(i)
    PROVE  /\ \A i \in Intents : IntentOK(i)'
           /\ posts' \in [Intents -> Nat] /\ orders' \in [Intents -> OrderStates]
           /\ wire' \subseteq Intents
<1>1. \A i \in Intents : intents[i] \in Row /\ intents'[i] \in Row
  BY DEF DispatchInv, SessionInv, IntentInv
<1>2. \A i \in Intents : intents[i].attempts \in 0..1 /\ intents'[i].attempts \in 0..1
  BY <1>1 DEF Row
<1>. QED BY <1>2 DEF DispatchInv, IntentOK, RowStep, Unsent, brokerVars

\* The other workers keep what they know, as attempts only rise.
LEMMA OtherWorkers ==
    ASSUME DispatchInv, UNCHANGED brokerVars, \A i \in Intents : RowStep(i),
           NEW v \in Owners, worker'[v] = worker[v]
    PROVE  WorkerOK(v)'
<1>1. WorkerOK(v) /\ worker[v] \in Worker
  BY DEF DispatchInv
<1>2. worker[v].pc \notin {"idle", "done"} => worker[v].intent \in Intents
  BY <1>1, IntentConstants DEF WorkerOK
<1>. QED BY <1>1, <1>2 DEF WorkerOK, RowStep, brokerVars, Before, Sending

LEMMA WorkerStep ==
    ASSUME DispatchInv, SessionInv', UNCHANGED brokerVars, \A i \in Intents : RowStep(i),
           NEW w \in Owners, NEW q \in Worker, worker' = [worker EXCEPT ![w] = q], WorkerOK(w)',
           q.pc \in Sending => \A v \in Owners \ {w} :
               ~(worker[v].pc \in Sending /\ worker[v].intent = q.intent)
    PROVE  DispatchInv'
<1>1. /\ worker' \in [Owners -> Worker] /\ worker'[w] = q
      /\ \A v \in Owners \ {w} : worker'[v] = worker[v]
  BY DEF DispatchInv
<1>2. \A v \in Owners : WorkerOK(v)'
  BY <1>1, OtherWorkers
<1>3. SenderAlone'
  BY <1>1 DEF DispatchInv, SenderAlone
<1>4. (\A v \in Owners : WorkerOK(v))' /\ (\A i \in Intents : IntentOK(i))'
  BY <1>2, RowsKept
<1>. QED BY <1>1, <1>3, <1>4, RowsKept DEF DispatchInv

\* The worker goes on to another step of its dispatch, or ends it.
LEMMA GoesOn ==
    ASSUME DispatchInv, SessionInv', UNCHANGED brokerVars, \A i \in Intents : RowStep(i),
           NEW w \in Owners, NEW pc \in DispatchPcs \ {"idle", "record"}, GoTo(w, pc),
           worker[w].pc \notin {"idle", "done"},
           pc \in Paying => S(w) \in Sessions,
           pc \in Before => orders[I(w)] = "none" \/ intents'[I(w)].attempts = 1,
           pc \in Sending =>
              /\ intents'[I(w)].attempts = 1 /\ posts[I(w)] = 0 /\ orders[I(w)] = "none"
              /\ I(w) \notin wire
              /\ \A v \in Owners \ {w} : ~(worker[v].pc \in Sending /\ I(v) = I(w))
    PROVE  DispatchInv'
<1>. DEFINE q == IF pc = "done" THEN AtRest("done") ELSE [worker[w] EXCEPT !.pc = pc]
<1>1. worker[w] \in Worker /\ WorkerOK(w) /\ worker \in [Owners -> Worker]
  BY DEF DispatchInv
<1>2. /\ q \in Worker /\ q.pc = pc
      /\ pc # "done" => q.intent = I(w) /\ q.session = S(w)
  BY <1>1, AtRestOK DEF Worker, I, S
<1>3. worker' = [worker EXCEPT ![w] = q]
  BY DEF GoTo
<1>. HIDE DEF q
<1>4. worker'[w] = q
  BY <1>1, <1>3
<1>5. WorkerOK(w)'
  BY <1>1, <1>2, <1>4 DEF WorkerOK, I, brokerVars, Paying, Before, Sending
<1>. QED BY <1>2, <1>3, <1>5, WorkerStep DEF Sending, I

\* The calls of advance but the fence write what the broker's order bears out.
LEMMA AdvancedRows ==
    ASSUME DispatchInv, NEW i \in Intents,
           NEW target \in Status \ {"ABSENT", "PENDING", "CLAIMED"}, NEW b \in OrderIds \cup {NoOrder},
           Write(i, AdvancedRow(i, target, b)),
           target \in Terminal /\ (intents[i].evidence \/ b # NoOrder) => orders[i] = target
    PROVE  \A j \in Intents : RowStep(j)
<1>. DEFINE row == AdvancedRow(i, target, b)
<1>1. /\ intents \in [Intents -> Row] /\ intents' = [intents EXCEPT ![i] = row]
  BY DEF DispatchInv, SessionInv, IntentInv, Write
<1>2. /\ row.status = target /\ row.attempts = intents[i].attempts
      /\ row.evidence <=> intents[i].evidence \/ b # NoOrder
  BY <1>1, AdvancedFields
<1>. HIDE DEF row
<1>3. RowStep(i)
  BY <1>1, <1>2 DEF RowStep
<1>4. ASSUME NEW j \in Intents \ {i} PROVE RowStep(j)
  BY <1>1 DEF DispatchInv, IntentOK, Unsent, RowStep
<1>. QED BY <1>3, <1>4

LEMMA WrittenRows ==
    ASSUME DispatchInv, NEW i \in Intents, NEW row, Write(i, row),
           row.attempts = intents[i].attempts \/ intents[i].attempts # 1, ~row.evidence
    PROVE  \A j \in Intents : RowStep(j)
<1>1. /\ intents \in [Intents -> Row] /\ intents' = [intents EXCEPT ![i] = row]
  BY DEF DispatchInv, SessionInv, IntentInv, Write
<1>2. RowStep(i)
  BY <1>1 DEF RowStep
<1>3. ASSUME NEW j \in Intents \ {i} PROVE RowStep(j)
  BY <1>1 DEF DispatchInv, IntentOK, Unsent, RowStep
<1>. QED BY <1>2, <1>3

LEMMA ClaimRows ==
    ASSUME DispatchInv, NEW i \in Intents, NEW w \in Owners, Claim(i, w)
    PROVE  \A j \in Intents : RowStep(j)
<1>1. intents[i] \in Row /\ IntentOK(i) /\ intents \in [Intents -> Row]
  BY DEF DispatchInv, SessionInv, IntentInv
<1>2. CASE KeepClaim(i, w)
  BY <1>2, SameRows DEF KeepClaim, intentVars
<1>3. CASE ExpireOrphan(i)
  <2>. DEFINE row == [intents[i] EXCEPT !.status = "EXPIRED", !.owner = NoOwner, !.claim = 0]
  <2>1. row.attempts = intents[i].attempts /\ (row.evidence <=> intents[i].evidence)
    BY <1>1 DEF Row
  <2>2. ~intents[i].evidence
    BY <1>1, <1>3 DEF ExpireOrphan, Orphaned, IntentOK
  <2>. HIDE DEF row
  <2>3. Write(i, row)
    BY <1>3 DEF ExpireOrphan, row
  <2>. QED BY <2>1, <2>2, <2>3, WrittenRows
<1>4. CASE TakeClaim(i, w)
  <2>. DEFINE row == ClaimedRow(i, w)
  <2>1. /\ row.attempts = intents[i].attempts /\ (row.evidence <=> intents[i].evidence)
        /\ row.status = IF intents[i].status = "PENDING" THEN "CLAIMED" ELSE intents[i].status
    BY <1>1 DEF ClaimedRow, Row
  <2>2. Write(i, row) /\ intents[i].status \notin Terminal
    BY <1>4 DEF TakeClaim
  <2>. HIDE DEF row
  <2>3. CASE ~row.evidence
    BY <2>1, <2>2, <2>3, WrittenRows
  <2>4. CASE row.evidence
    <3>1. row.status = intents[i].status /\ ~Unsent(i)
      BY <1>1, <2>1, <2>4 DEF IntentOK, Unsent
    <3>2. intents' = [intents EXCEPT ![i] = row]
      BY <2>2 DEF Write
    <3>3. RowStep(i)
      BY <1>1, <2>1, <2>2, <3>1, <3>2 DEF RowStep, Unsent
    <3>4. ASSUME NEW j \in Intents \ {i} PROVE RowStep(j)
      BY <1>1, <3>2 DEF DispatchInv, IntentOK, Unsent, RowStep
    <3>. QED BY <3>3, <3>4
  <2>. QED BY <2>3, <2>4
<1>. QED BY <1>2, <1>3, <1>4 DEF Claim

LEMMA CreateRows ==
    ASSUME DispatchInv, NEW i \in Intents, NEW w \in Owners, Create(i, w)
    PROVE  \A j \in Intents : RowStep(j)
<1>1. ASSUME NEW c \in Cycles, NEW f \in 0..IntentTTL, CreateIntent(i, w, c, f)
      PROVE  \A j \in Intents : RowStep(j)
  <2>1. /\ FreshRow("PENDING", c, f).attempts = 0 /\ ~FreshRow("PENDING", c, f).evidence
    BY DEF FreshRow
  <2>2. intents[i].status = "ABSENT" /\ RowOK(i, intents[i])
    BY <1>1 DEF CreateIntent, DispatchInv, SessionInv, IntentInv
  <2>3. intents[i].attempts # 1
    BY <2>2 DEF RowOK
  <2>. QED BY <1>1, <2>1, <2>3, WrittenRows DEF CreateIntent
<1>2. CASE UNCHANGED intentVars
  BY <1>2, SameRows DEF intentVars
<1>. QED BY <1>1, <1>2 DEF Create, ReplayCreate

LEMMA FenceRows ==
    ASSUME DispatchInv, NEW i \in Intents, NEW w \in Owners, NEW p, Fence(i, w, p)
    PROVE  /\ \A j \in Intents : RowStep(j)
           /\ intents[i].attempts = 0 /\ intents'[i].attempts = 1
<1>. DEFINE adv == AdvancedRow(i, "SUBMITTING", NoOrder)
            row == [adv EXCEPT !.attempts = @ + 1]
<1>1. intents[i] \in Row /\ IntentOK(i) /\ intents \in [Intents -> Row]
  BY DEF DispatchInv, SessionInv, IntentInv
<1>2. /\ adv \in Row /\ adv.attempts = intents[i].attempts
      /\ adv.evidence <=> intents[i].evidence \/ NoOrder # NoOrder
  BY <1>1, AdvancedFields DEF Status, Active
<1>. HIDE DEF adv
<1>3. row.attempts = 1 + intents[i].attempts /\ (row.evidence <=> intents[i].evidence)
  BY <1>1, <1>2 DEF Row
<1>4. Write(i, row) /\ intents[i].attempts = 0 /\ ~intents[i].evidence
  BY <1>1 DEF Fence, adv, IntentOK, Unsent
<1>. HIDE DEF row
<1>5. intents' = [intents EXCEPT ![i] = row]
  BY <1>4 DEF Write
<1>. QED BY <1>1, <1>3, <1>4, <1>5, WrittenRows

-----------------------------------------------------------------------------
(* One lemma per action: it is a step of the sessions, and keeps DispatchInv. *)

LEMMA NothingMoves ==
    ASSUME DispatchInv, UNCHANGED sessionVars
    PROVE  SessionInv' /\ \A i \in Intents : RowStep(i)
<1>1. SessionInv'
  BY SessionNextInv DEF DispatchInv
<1>2. UNCHANGED intents
  BY DEF sessionVars, intentVars
<1>. QED BY <1>1, <1>2, SameRows

\* Sessions move, and the intents do not.
LEMMA SessionsMove ==
    ASSUME DispatchInv, [SessionNext]_sessionVars, UNCHANGED intents
    PROVE  SessionInv' /\ \A i \in Intents : RowStep(i)
BY SessionNextInv, SameRows DEF DispatchInv

LEMMA CallsMove ==
    ASSUME DispatchInv, NEW i \in Intents, NEW w \in Owners, UNCHANGED sessions,
           Create(i, w) \/ Claim(i, w) \/ AdvanceOutsideGate(i, w)
    PROVE  [SessionNext]_sessionVars /\ SessionInv'
<1>1. SessionNext
  BY DEF SessionNext
<1>. QED BY <1>1, SessionNextInv DEF DispatchInv

LEMMA AtStep ==
    ASSUME DispatchInv, NEW w \in Owners, worker[w].pc \notin {"idle", "done"}
    PROVE  WorkerOK(w) /\ worker[w] \in Worker /\ I(w) \in Paper /\ I(w) \in Intents
BY IntentConstants DEF DispatchInv, WorkerOK, I

\* The steps that only look.
LEMMA LooksInv ==
    ASSUME DispatchInv, NEW w \in Owners,
           \/ Lookup(w) \/ LookupFails(w) \/ Preflight(w) \/ SendWindow(w)
           \/ NoResponse(w) \/ GetFails(w) \/ Abort(w)
    PROVE  [SessionNext]_sessionVars /\ DispatchInv'
<1>1. UNCHANGED sessionVars /\ UNCHANGED brokerVars /\ worker[w].pc \notin {"idle", "done"}
  BY DEF Lookup, LookupFails, Preflight, SendWindow, NoResponse, GetFails, Abort, Is
<1>2. /\ SessionInv' /\ \A i \in Intents : RowStep(i)
      /\ WorkerOK(w)
      /\ UNCHANGED intents
  BY <1>1, NothingMoves, AtStep DEF sessionVars, intentVars
<1>3. CASE Lookup(w)
  <2>1. CASE orders[I(w)] = "none"
    BY <1>1, <1>2, <1>3, <2>1, GoesOn
       DEF Lookup, Is, WorkerOK, S, I, Paying, Before, Sending, DispatchPcs
  <2>2. CASE orders[I(w)] # "none"
    BY <1>1, <1>2, <1>3, <2>2, GoesOn DEF Lookup, Is, Paying, Before, Sending, DispatchPcs
  <2>. QED BY <2>1, <2>2
<1>4. CASE LookupFails(w) \/ NoResponse(w) \/ GetFails(w) \/ Abort(w)
  <2>1. \E pc \in {"unknown", "reconcile", "done"} : GoTo(w, pc)
    BY <1>4 DEF LookupFails, NoResponse, GetFails, Abort, AfterNoResponse
  <2>2. PICK pc \in {"unknown", "reconcile", "done"} : GoTo(w, pc)
    BY <2>1
  <2>3. /\ pc \in DispatchPcs \ {"idle", "record"}
        /\ pc \notin Paying /\ pc \notin Before /\ pc \notin Sending
    BY DEF Paying, Before, Sending, DispatchPcs
  <2>. QED BY <1>1, <1>2, <2>2, <2>3, GoesOn
<1>5. CASE Preflight(w)
  <2>1. PICK pc \in {"submit", "reject"} : GoTo(w, pc)
    BY <1>5 DEF Preflight
  <2>2. pc \in DispatchPcs \ {"idle", "record"} /\ pc \notin Sending
    BY DEF Sending, DispatchPcs
  <2>3. worker[w].pc \in Before /\ worker[w].pc \in Paying
    BY <1>5 DEF Preflight, Is, Before, Paying
  <2>4. /\ S(w) \in Sessions
        /\ orders[I(w)] = "none" \/ intents'[I(w)].attempts = 1
    BY <1>2, <2>3 DEF WorkerOK, S, I
  <2>. QED BY <1>1, <1>2, <2>1, <2>2, <2>4, GoesOn
<1>6. CASE SendWindow(w)
  <2>1. worker[w].pc = "window" /\ worker[w].pc \in Sending
    BY <1>6 DEF SendWindow, Is, Sending
  <2>2. /\ intents'[I(w)].attempts = 1 /\ posts[I(w)] = 0 /\ orders[I(w)] = "none"
        /\ I(w) \notin wire
        /\ \A v \in Owners \ {w} : ~(worker[v].pc \in Sending /\ I(v) = I(w))
    BY <1>2, <2>1 DEF WorkerOK, DispatchInv, SenderAlone, I
  <2>3. PICK pc \in {"post", "unknown"} : GoTo(w, pc)
    BY <1>6 DEF SendWindow
  <2>4. pc \in DispatchPcs \ {"idle", "record"} /\ pc \notin Paying /\ pc \notin Before
    BY DEF Paying, Before, DispatchPcs
  <2>. QED BY <1>1, <1>2, <2>2, <2>3, <2>4, GoesOn
<1>. QED BY <1>1, <1>3, <1>4, <1>5, <1>6

\* The steps that learn something: an intent to work on, a preflight, the broker's order.
LEMMA LearnsInv ==
    ASSUME DispatchInv, NEW w \in Owners,
           \/ Refresh(w) \/ Response(w) \/ Get(w)
           \/ \E i \in Intents : StartRecover(w, i) \/ \E s \in Sessions : StartDispatch(w, i, s)
    PROVE  [SessionNext]_sessionVars /\ DispatchInv'
<1>. DEFINE old == worker[w]
<1>1. UNCHANGED sessionVars /\ UNCHANGED brokerVars
  BY DEF Refresh, Response, Get, StartRecover, StartDispatch
<1>2. /\ SessionInv' /\ \A i \in Intents : RowStep(i)
      /\ old \in Worker /\ WorkerOK(w) /\ worker \in [Owners -> Worker]
      /\ UNCHANGED <<intents, orders, posts, wire>>
  BY <1>1, NothingMoves DEF DispatchInv, sessionVars, intentVars, brokerVars
<1>. SUFFICES ASSUME NEW q \in Worker, worker' = [worker EXCEPT ![w] = q],
                     q.pc \in {"validate", "record", "unknown", "persist", "claim"},
                     q.intent \in Paper,
                     q.pc = "validate" => /\ q.session \in Sessions
                                          /\ orders[q.intent] = "none" \/ intents[q.intent].attempts = 1,
                     q.pc = "record" => q.seen # "none" /\ q.seen = orders[q.intent]
              PROVE  DispatchInv'
  <2>1. CASE Refresh(w)
    <3>. DEFINE q == [old EXCEPT !.pc = "validate", !.preflight = PreflightTTL]
    <3>1. old.pc = "refresh" /\ worker' = [worker EXCEPT ![w] = q]
      BY <1>2, <2>1 DEF Refresh, Is
    <3>2. q \in Worker /\ q.pc = "validate" /\ q.intent = old.intent /\ q.session = old.session
      BY <1>2, DispatchBounds DEF Worker, DispatchPcs
    <3>. QED BY <1>1, <1>2, <3>1, <3>2 DEF WorkerOK, Paying, Before
  <2>2. CASE Response(w) \/ Get(w)
    <3>1. PICK pc \in {"record", "unknown"} :
              /\ worker' = [worker EXCEPT ![w].pc = pc, ![w].seen = orders[I(w)]]
              /\ pc = "record" => orders[I(w)] # "none"
              /\ old.pc \in {"response", "get"}
      BY <2>2 DEF Response, Get, Is, Answered
    <3>. DEFINE q == [old EXCEPT !.pc = pc, !.seen = orders[I(w)]]
    <3>2. I(w) \in Paper /\ orders[I(w)] \in OrderStates
      BY <3>1, AtStep DEF DispatchInv
    <3>3. /\ q \in Worker /\ q.pc = pc /\ q.intent = old.intent /\ q.seen = orders[I(w)]
      BY <1>2, <3>2 DEF Worker, DispatchPcs
    <3>4. worker' = [worker EXCEPT ![w] = q]
      BY <1>2, <3>1
    <3>. HIDE DEF q
    <3>. QED BY <1>1, <3>1, <3>2, <3>3, <3>4 DEF I
  <2>3. ASSUME NEW i \in Intents, StartRecover(w, i) PROVE [SessionNext]_sessionVars /\ DispatchInv'
    <3>. DEFINE q == [old EXCEPT !.pc = "claim", !.intent = i, !.session = None]
    <3>1. i \in Paper /\ worker' = [worker EXCEPT ![w] = q]
      BY <1>2, <2>3 DEF StartRecover
    <3>2. q \in Worker /\ q.pc = "claim" /\ q.intent = i
      BY <1>2 DEF Worker, DispatchPcs
    <3>. HIDE DEF q
    <3>. QED BY <1>1, <3>1, <3>2
  <2>4. ASSUME NEW i \in Intents, NEW s \in Sessions, StartDispatch(w, i, s)
        PROVE  [SessionNext]_sessionVars /\ DispatchInv'
    <3>. DEFINE q == [old EXCEPT !.pc = "persist", !.intent = i, !.session = s]
    <3>1. i \in Paper /\ worker' = [worker EXCEPT ![w] = q]
      BY <1>2, <2>4 DEF StartDispatch
    <3>2. q \in Worker /\ q.pc = "persist" /\ q.intent = i
      BY <1>2 DEF Worker, DispatchPcs
    <3>. HIDE DEF q
    <3>. QED BY <1>1, <3>1, <3>2
  <2>. QED BY <2>1, <2>2, <2>3, <2>4
<1>3. worker'[w] = q
  BY <1>2
<1>4. WorkerOK(w)'
  BY <1>2, <1>3 DEF WorkerOK, Paying, Before, Sending
<1>. QED BY <1>1, <1>2, <1>4, WorkerStep DEF Sending

\* The steps that call an RPC of the intents.
LEMMA PersistInv ==
    ASSUME DispatchInv, NEW w \in Owners, Persist(w)
    PROVE  [SessionNext]_sessionVars /\ DispatchInv'
<1>1. /\ I(w) \in Intents /\ UNCHANGED sessions /\ UNCHANGED brokerVars
      /\ worker[w].pc \notin {"idle", "done"}
  BY AtStep DEF Persist, Is
<1>2. Create(I(w), w)
  <2>1. IntentTTL \in 0..IntentTTL
    BY IntentConstants
  <2>. QED BY <2>1 DEF Persist, Create
<1>3. [SessionNext]_sessionVars /\ SessionInv' /\ \A i \in Intents : RowStep(i)
  BY <1>1, <1>2, CallsMove, CreateRows
<1>4. PICK pc \in {"done", "claim"} : GoTo(w, pc)
  BY DEF Persist
<1>5. /\ pc \in DispatchPcs \ {"idle", "record"}
      /\ pc \notin Paying /\ pc \notin Before /\ pc \notin Sending
  BY DEF Paying, Before, Sending, DispatchPcs
<1>. QED BY <1>1, <1>3, <1>4, <1>5, GoesOn

LEMMA ClaimIntentInv ==
    ASSUME DispatchInv, NEW w \in Owners, ClaimIntent(w)
    PROVE  [SessionNext]_sessionVars /\ DispatchInv'
<1>1. /\ I(w) \in Intents /\ UNCHANGED sessions /\ UNCHANGED brokerVars
      /\ worker[w].pc \notin {"idle", "done"} /\ worker[w] \in Worker
  BY AtStep DEF ClaimIntent, Is
<1>2. [SessionNext]_sessionVars /\ SessionInv' /\ \A i \in Intents : RowStep(i)
  BY <1>1, CallsMove, ClaimRows DEF ClaimIntent
<1>3. PICK pc \in {"done", "reconcile", "reserve"} : GoTo(w, pc) /\ (pc = "reserve" => S(w) # None)
  BY DEF ClaimIntent, AfterClaim
<1>4. /\ pc \in DispatchPcs \ {"idle", "record"} /\ pc \notin Before /\ pc \notin Sending
      /\ pc \in Paying => S(w) \in Sessions
  BY <1>1, <1>3 DEF Paying, Before, Sending, DispatchPcs, Worker, S
<1>. QED BY <1>1, <1>2, <1>3, <1>4, GoesOn

\* A call of advance but the fence: reject, unknown, reconcile, or the broker's order.
LEMMA RecordsInv ==
    ASSUME DispatchInv, NEW w \in Owners,
           RejectIntent(w) \/ MarkUncertain(w) \/ Reconcile(w) \/ Record(w)
    PROVE  [SessionNext]_sessionVars /\ DispatchInv'
<1>1. /\ I(w) \in Intents /\ UNCHANGED sessions /\ UNCHANGED brokerVars
      /\ worker[w].pc \notin {"idle", "done"} /\ WorkerOK(w) /\ IntentOK(I(w))
  BY AtStep DEF RejectIntent, MarkUncertain, Reconcile, Record, Is, DispatchInv
<1>2. BrokerId[I(w)] \in OrderIds /\ BrokerId[I(w)] # NoOrder
  BY <1>1, DispatchConstants, IntentConstants
<1>3. AdvanceOutsideGate(I(w), w) /\ \A i \in Intents : RowStep(i)
  <2>1. CASE RejectIntent(w)
    <3>1. ~intents[I(w)].evidence
      BY <1>1, <2>1 DEF RejectIntent, RejectLocally, Rejectable, IntentOK, Unsent
    <3>. QED BY <1>1, <2>1, <3>1, AdvancedRows
         DEF RejectIntent, RejectLocally, AdvanceOutsideGate, Status, Terminal, Active
  <2>2. ASSUME NEW b \in OrderIds \cup {NoOrder}, MarkUnknown(I(w), w, b)
        PROVE  AdvanceOutsideGate(I(w), w) /\ \A i \in Intents : RowStep(i)
    BY <1>1, <2>2, AdvancedRows DEF MarkUnknown, AdvanceOutsideGate, Status, Terminal, Active
  <2>3. CASE MarkUncertain(w)
    BY <2>2, <2>3 DEF MarkUncertain
  <2>4. CASE Reconcile(w)
    BY <1>1, <2>4, AdvancedRows
       DEF Reconcile, BeginReconcile, AdvanceOutsideGate, Status, Terminal, Active
  <2>5. ASSUME NEW target \in Terminal \cup {"SUBMITTED"}, Settle(I(w), w, target, BrokerId[I(w)]),
               target \in Terminal => orders[I(w)] = target
        PROVE  AdvanceOutsideGate(I(w), w) /\ \A i \in Intents : RowStep(i)
    <3>1. target \in Status \ {"ABSENT", "PENDING", "CLAIMED"}
      BY DEF Status, Terminal, Active
    <3>. QED BY <1>1, <1>2, <2>5, <3>1, AdvancedRows DEF Settle, AdvanceOutsideGate
  <2>6. CASE Record(w)
    <3>1. worker[w].pc = "record" /\ worker[w].seen \in OrderStates
      BY <1>1, <2>6 DEF Record, Is, WorkerOK, Worker
    <3>2. CASE worker[w].seen = "open"
      <4>1. Settle(I(w), w, "SUBMITTED", BrokerId[I(w)]) \/ MarkUnknown(I(w), w, BrokerId[I(w)])
        BY <2>6, <3>2 DEF Record
      <4>2. "SUBMITTED" \notin Terminal
        BY DEF Terminal
      <4>. QED BY <1>2, <2>2, <2>5, <4>1, <4>2
    <3>3. CASE worker[w].seen # "open"
      <4>1. /\ Settle(I(w), w, worker[w].seen, BrokerId[I(w)])
            /\ worker[w].seen \in Terminal /\ orders[I(w)] = worker[w].seen
        BY <1>1, <2>6, <3>1, <3>3 DEF Record, WorkerOK, OrderStates, I
      <4>. QED BY <2>5, <4>1
    <3>. QED BY <3>2, <3>3
  <2>. QED BY <2>1, <2>3, <2>4, <2>6
<1>4. [SessionNext]_sessionVars /\ SessionInv'
  BY <1>1, <1>3, CallsMove
<1>5. PICK pc \in {"done", "get"} : GoTo(w, pc)
  BY DEF RejectIntent, MarkUncertain, Reconcile, Record
<1>6. /\ pc \in DispatchPcs \ {"idle", "record"}
      /\ pc \notin Paying /\ pc \notin Before /\ pc \notin Sending
  BY DEF Paying, Before, Sending, DispatchPcs
<1>. QED BY <1>1, <1>3, <1>4, <1>5, <1>6, GoesOn

\* The steps that ask the gate and leave the intents alone.
LEMMA AsksGateInv ==
    ASSUME DispatchInv, NEW w \in Owners,
           Reserve(w) \/ ReserveDenied(w) \/ Validate(w) \/ SubmitDenied(w)
    PROVE  [SessionNext]_sessionVars /\ DispatchInv'
<1>1. /\ worker[w].pc \in Paying /\ worker[w].pc \notin {"idle", "done"} /\ UNCHANGED brokerVars
  BY DEF Reserve, ReserveDenied, Validate, SubmitDenied, Is, Paying, Before
<1>2. /\ I(w) \in Intents /\ WorkerOK(w) /\ S(w) \in Sessions
  BY <1>1, AtStep DEF WorkerOK, S
<1>3. /\ UNCHANGED sessionVars \/ SessionControl(S(w)) \/ Gate(S(w), I(w), w)
      /\ UNCHANGED intents
  <2>1. CASE Reserve(w)
    BY <2>1 DEF Reserve, GateReserve, GateReplay, Gate, sessionVars, intentVars
  <2>2. ASSUME GateDenies(S(w), I(w), w)
        PROVE  /\ UNCHANGED sessionVars \/ SessionControl(S(w)) \/ Gate(S(w), I(w), w)
               /\ UNCHANGED intents
    BY <2>2 DEF GateDenies, GateKill, ExpireSession, SessionControl, Gate, sessionVars, intentVars
  <2>3. CASE ReserveDenied(w) \/ SubmitDenied(w)
    BY <2>2, <2>3 DEF ReserveDenied, SubmitDenied, GateDeniesReserve, GateDeniesSubmit, sessionVars, intentVars
  <2>4. CASE Validate(w)
    BY <2>4 DEF Validate, ExpireSession, SessionControl, sessionVars, intentVars
  <2>. QED BY <2>1, <2>3, <2>4
<1>4. [SessionNext]_sessionVars
  BY <1>2, <1>3 DEF SessionNext
<1>5. SessionInv' /\ \A i \in Intents : RowStep(i)
  BY <1>3, <1>4, SessionsMove
<1>6. PICK pc \in {"lookup", "reject", "done", "preflight"} :
          GoTo(w, pc) /\ (pc = "preflight" => worker[w].pc = "validate")
  BY DEF Reserve, ReserveDenied, Validate, SubmitDenied, Is
<1>7. /\ pc \in DispatchPcs \ {"idle", "record"} /\ pc \notin Sending
      /\ pc \in Before => orders[I(w)] = "none" \/ intents'[I(w)].attempts = 1
  BY <1>2, <1>3, <1>6 DEF Before, Sending, DispatchPcs, WorkerOK, I
<1>. QED BY <1>1, <1>2, <1>4, <1>5, <1>6, <1>7, GoesOn

\* The fence: attempts were 0, so nobody has posted and nobody else is about to.
LEMMA SubmitInv ==
    ASSUME DispatchInv, NEW w \in Owners, Submit(w)
    PROVE  [SessionNext]_sessionVars /\ DispatchInv'
<1>. DEFINE i == I(w)
<1>1. /\ worker[w].pc = "submit" /\ UNCHANGED brokerVars
      /\ GateSubmit(S(w), i, w, worker[w].preflight) /\ GoTo(w, "window")
  BY DEF Submit, Is
<1>2. /\ i \in Intents /\ WorkerOK(w) /\ S(w) \in Sessions /\ worker[w] \in Worker /\ IntentOK(i)
      /\ orders[i] = "none" \/ intents[i].attempts = 1
  BY <1>1, AtStep DEF WorkerOK, S, I, Paying, Before, DispatchInv
<1>3. Fence(i, w, worker[w].preflight)
  BY <1>1 DEF GateSubmit
<1>4. /\ \A j \in Intents : RowStep(j)
      /\ intents[i].attempts = 0 /\ intents'[i].attempts = 1
  BY <1>2, <1>3, FenceRows
<1>5. Gate(S(w), i, w)
  <2>1. Fence(i, w, 1)
    BY <1>3 DEF Fence
  <2>2. 1 \in 0..1 /\ GateSubmit(S(w), i, w, 1)
    BY <1>1, <2>1 DEF GateSubmit
  <2>. QED BY <2>2 DEF Gate
<1>6. [SessionNext]_sessionVars /\ SessionInv'
  BY <1>2, <1>5, SessionNextInv DEF SessionNext, DispatchInv
<1>7. /\ posts[i] = 0 /\ orders[i] = "none" /\ i \notin wire
      /\ \A v \in Owners \ {w} : ~(worker[v].pc \in Sending /\ I(v) = i)
  BY <1>2, <1>4 DEF IntentOK, DispatchInv, WorkerOK, I
<1>8. /\ "window" \in DispatchPcs \ {"idle", "record"}
      /\ "window" \notin Paying /\ "window" \notin Before
  BY DEF DispatchPcs, Paying, Before
<1>. QED BY <1>1, <1>4, <1>6, <1>7, <1>8, GoesOn

\* The request leaves: the only POST of this intent, as no other worker is sending it.
LEMMA PostInv ==
    ASSUME DispatchInv, NEW w \in Owners, Post(w)
    PROVE  /\ [SessionNext]_sessionVars /\ DispatchInv'
           /\ posts[I(w)] = 0 /\ intents[I(w)].attempts = 1 /\ orders[I(w)] = "none"
           /\ posts' = [posts EXCEPT ![I(w)] = 1]
<1>. DEFINE i == I(w)
            q == [worker[w] EXCEPT !.pc = "response"]
<1>1. /\ worker[w].pc = "post" /\ UNCHANGED sessionVars /\ UNCHANGED orders
      /\ wire' = wire \cup {i} /\ posts' = [posts EXCEPT ![i] = @ + 1] /\ GoTo(w, "response")
  BY DEF Post, Is
<1>2. /\ WorkerOK(w) /\ worker[w] \in Worker /\ i \in Paper /\ i \in Intents
      /\ SessionInv' /\ UNCHANGED intents
      /\ posts \in [Intents -> Nat] /\ worker \in [Owners -> Worker]
  BY <1>1, AtStep, NothingMoves DEF DispatchInv, sessionVars, intentVars
<1>3. /\ intents[i].attempts = 1 /\ posts[i] = 0 /\ orders[i] = "none" /\ i \notin wire
      /\ \A v \in Owners \ {w} : ~(worker[v].pc \in Sending /\ worker[v].intent = i)
  BY <1>1, <1>2 DEF WorkerOK, Sending, I, DispatchInv, SenderAlone
<1>4. posts' = [posts EXCEPT ![i] = 1] /\ posts'[i] = 1 /\ \A j \in Intents \ {i} : posts'[j] = posts[j]
  BY <1>1, <1>2, <1>3
<1>5. q \in Worker /\ q.pc = "response" /\ q.intent = i
  BY <1>2 DEF Worker, DispatchPcs, I
<1>6. worker' = [worker EXCEPT ![w] = q]
  BY <1>1 DEF GoTo
<1>. HIDE DEF q
<1>7. /\ worker' \in [Owners -> Worker] /\ worker'[w] = q
      /\ \A v \in Owners \ {w} : worker'[v] = worker[v]
  BY <1>2, <1>5, <1>6
<1>8. ASSUME NEW v \in Owners PROVE WorkerOK(v)'
  <2>1. CASE v = w
    BY <1>2, <1>5, <1>7, <2>1 DEF WorkerOK, Paying, Before, Sending
  <2>2. CASE v # w
    <3>1. WorkerOK(v) /\ worker'[v] = worker[v]
      BY <1>7, <2>2 DEF DispatchInv
    <3>2. worker[v].pc \in Sending => worker[v].intent # i /\ worker[v].intent \in Intents
      BY <1>3, <2>2, <3>1, IntentConstants DEF WorkerOK, Sending
    <3>. QED BY <1>1, <1>2, <1>4, <3>1, <3>2 DEF WorkerOK
  <2>. QED BY <2>1, <2>2
<1>9. SenderAlone'
  BY <1>5, <1>7 DEF DispatchInv, SenderAlone, Sending
<1>10. ASSUME NEW j \in Intents PROVE IntentOK(j)'
  <2>1. IntentOK(j)
    BY DEF DispatchInv
  <2>2. CASE j = i
    BY <1>1, <1>2, <1>3, <1>4, <2>1, <2>2 DEF IntentOK, Unsent
  <2>3. CASE j # i
    BY <1>1, <1>2, <1>4, <2>1, <2>3 DEF IntentOK, Unsent
  <2>. QED BY <2>2, <2>3
<1>11. posts' \in [Intents -> Nat] /\ orders' \in [Intents -> OrderStates] /\ wire' \subseteq Intents
  BY <1>1, <1>2, <1>4 DEF DispatchInv
<1>. QED BY <1>1, <1>2, <1>3, <1>4, <1>7, <1>8, <1>9, <1>10, <1>11 DEF DispatchInv

\* The broker moves the order of i: it arrives, or it ends.
BrokerMoves(i) == Deliver(i) \/ \E o \in Endings : BrokerEnds(i, o)

LEMMA BrokerInv ==
    ASSUME DispatchInv, NEW i \in Intents, BrokerMoves(i)
    PROVE  /\ [SessionNext]_sessionVars /\ DispatchInv' /\ UNCHANGED posts
           /\ wire' \in {wire, wire \ {i}}
           /\ i \in wire => i \notin wire' /\ posts[i] > 0
           /\ \A j \in Intents \ {i} : orders'[j] = orders[j]
<1>1. /\ UNCHANGED sessionVars /\ UNCHANGED worker /\ UNCHANGED posts /\ SessionInv'
      /\ UNCHANGED intents
  BY NothingMoves DEF BrokerMoves, Deliver, BrokerEnds, sessionVars, intentVars
<1>2. /\ orders \in [Intents -> OrderStates] /\ wire \subseteq Intents /\ IntentOK(i)
  BY DEF DispatchInv
<1>3. PICK o \in OrderStates :
          /\ orders' = [orders EXCEPT ![i] = o]
          /\ \/ orders[i] = "none" /\ i \in wire /\ wire' = wire \ {i}
             \/ orders[i] = "open" /\ i \notin wire /\ wire' = wire /\ o \in Terminal
  <2>1. ASSUME NEW o \in Endings, BrokerEnds(i, o)
        PROVE  /\ orders' = [orders EXCEPT ![i] = o] /\ orders[i] = "open"
               /\ i \notin wire /\ wire' = wire /\ o \in Terminal /\ o \in OrderStates
    BY <1>2, <2>1, DispatchConstants DEF BrokerEnds, IntentOK, OrderStates
  <2>2. ASSUME Deliver(i)
        PROVE  /\ orders[i] = "none" /\ i \in wire /\ wire' = wire \ {i}
               /\ \E o \in OrderStates : orders' = [orders EXCEPT ![i] = o]
    <3>1. orders[i] = "none" /\ i \in wire /\ wire' = wire \ {i}
      BY <1>2, <2>2 DEF Deliver, IntentOK
    <3>2. CASE UNCHANGED orders
      <4>1. "none" \in OrderStates /\ orders' = [orders EXCEPT ![i] = "none"]
        BY <1>2, <3>1, <3>2 DEF OrderStates
      <4>. QED BY <3>1, <4>1
    <3>3. CASE \E o \in {"open", "REJECTED"} : orders' = [orders EXCEPT ![i] = o]
      <4>1. {"open", "REJECTED"} \subseteq OrderStates
        BY DEF OrderStates, Terminal
      <4>. QED BY <3>1, <3>3, <4>1
    <3>. QED BY <2>2, <3>1, <3>2, <3>3 DEF Deliver
  <2>. QED BY <2>1, <2>2 DEF BrokerMoves
<1>4. /\ orders' \in [Intents -> OrderStates] /\ orders'[i] = o
      /\ \A j \in Intents \ {i} : orders'[j] = orders[j]
      /\ wire' \subseteq Intents /\ i \notin wire' /\ wire' \subseteq wire
  BY <1>2, <1>3
<1>5. i \in wire => posts[i] > 0
  BY <1>2 DEF IntentOK
<1>6. i \in wire => intents[i].attempts = 1
  <2>1. intents[i].attempts \in 0..1
    BY DEF DispatchInv, SessionInv, IntentInv, Row
  <2>. QED BY <1>2, <2>1 DEF IntentOK
<1>7. ASSUME NEW v \in Owners PROVE WorkerOK(v)'
  <2>1. WorkerOK(v)
    BY DEF DispatchInv
  <2>2. worker[v].pc \notin {"idle", "done"} => worker[v].intent \in Intents
    BY <2>1, IntentConstants DEF WorkerOK
  <2>3. CASE worker[v].pc \notin {"idle", "done"} /\ worker[v].intent = i
    <3>1. worker[v].pc \notin Sending
      BY <1>3, <2>1, <2>3 DEF WorkerOK
    <3>2. worker[v].pc \in Before => intents[i].attempts = 1
      BY <1>3, <1>6, <2>1, <2>3 DEF WorkerOK
    <3>3. worker[v].pc = "record" => worker[v].seen \notin Terminal
      BY <1>3, <2>1, <2>3 DEF WorkerOK, Terminal
    <3>. QED BY <1>1, <2>1, <2>3, <3>1, <3>2, <3>3 DEF WorkerOK
  <2>4. CASE worker[v].pc \notin {"idle", "done"} /\ worker[v].intent # i
    BY <1>1, <1>4, <2>1, <2>2, <2>4 DEF WorkerOK
  <2>5. CASE worker[v].pc \in {"idle", "done"}
    BY <1>1, <2>1, <2>5 DEF WorkerOK, Paying, Before, Sending
  <2>. QED BY <2>3, <2>4, <2>5
<1>8. SenderAlone'
  BY <1>1 DEF DispatchInv, SenderAlone
<1>9. ASSUME NEW j \in Intents PROVE IntentOK(j)'
  <2>1. IntentOK(j)
    BY DEF DispatchInv
  <2>2. CASE j = i
    BY <1>1, <1>2, <1>3, <1>4, <2>1, <2>2 DEF IntentOK, Unsent, Terminal
  <2>3. CASE j # i
    BY <1>1, <1>4, <2>1, <2>3 DEF IntentOK, Unsent
  <2>. QED BY <2>2, <2>3
<1>. QED BY <1>1, <1>3, <1>4, <1>5, <1>7, <1>8, <1>9 DEF DispatchInv

\* Leases and sessions move, and the clock ticks.
LEMMA SurroundingsInv ==
    ASSUME DispatchInv, LeaseMoves \/ SessionMoves \/ DispatchTick
    PROVE  [SessionNext]_sessionVars /\ DispatchInv' /\ UNCHANGED brokerVars
<1>1. [SessionNext]_sessionVars /\ UNCHANGED brokerVars
  <2>1. CASE LeaseMoves
    BY <2>1 DEF LeaseMoves, LeaseStep, SessionNext, brokerVars
  <2>2. CASE SessionMoves
    BY <2>2 DEF SessionMoves, SessionNext
  <2>3. CASE DispatchTick
    BY <2>3 DEF DispatchTick, SessionNext
  <2>. QED BY <2>1, <2>2, <2>3
<1>2. SessionInv'
  BY <1>1, SessionNextInv DEF DispatchInv
<1>3. \A i \in Intents : RowStep(i)
  <2>1. CASE LeaseMoves
    BY <2>1, SameRows DEF LeaseMoves
  <2>2. CASE SessionMoves
    <3>1. RowsInv
      BY DEF DispatchInv, SessionInv
    <3>2. UNCHANGED intents
      BY <2>2, <3>1, ControlInv DEF SessionMoves, GateResult, intentVars
    <3>. QED BY <3>2, SameRows
  <2>3. CASE DispatchTick
    <3>1. ASSUME NEW i \in Intents PROVE RowStep(i)
      <4>1. SameButClock(intents[i], intents'[i]) /\ IntentOK(i)
        BY <2>3, TickRows DEF DispatchTick, SessionTick, DispatchInv, SessionInv
      <4>. QED BY <4>1 DEF SameButClock, RowStep, IntentOK, Unsent
    <3>. QED BY <3>1
  <2>. QED BY <2>1, <2>2, <2>3
<1>4. ASSUME NEW w \in Owners
      PROVE  /\ worker'[w] \in Worker
             /\ worker'[w].pc = worker[w].pc /\ worker'[w].intent = worker[w].intent
             /\ worker'[w].session = worker[w].session /\ worker'[w].seen = worker[w].seen
  <2>1. worker[w] \in Worker
    BY DEF DispatchInv
  <2>2. CASE UNCHANGED worker
    BY <2>1, <2>2
  <2>3. CASE DispatchTick
    <3>1. Elapse(worker[w].preflight) \in 0..PreflightTTL
      BY <2>1, ElapseBound, DispatchConstants DEF Worker
    <3>. QED BY <2>1, <2>3, <3>1 DEF DispatchTick, Worker
  <2>. QED BY <2>2, <2>3 DEF LeaseMoves, SessionMoves
<1>5. worker' \in [Owners -> Worker]
  <2>1. CASE UNCHANGED worker
    BY <2>1 DEF DispatchInv
  <2>2. CASE DispatchTick
    BY <1>4, <2>2 DEF DispatchTick
  <2>. QED BY <2>1, <2>2 DEF LeaseMoves, SessionMoves
<1>6. ASSUME NEW w \in Owners PROVE WorkerOK(w)'
  <2>1. WorkerOK(w)
    BY DEF DispatchInv
  <2>2. worker[w].pc \notin {"idle", "done"} => worker[w].intent \in Intents
    BY <2>1, IntentConstants DEF WorkerOK
  <2>. QED BY <1>1, <1>3, <1>4, <2>1, <2>2 DEF WorkerOK, RowStep, brokerVars, Before, Sending
<1>7. SenderAlone'
  BY <1>4 DEF DispatchInv, SenderAlone
<1>. QED BY <1>1, <1>2, <1>3, <1>5, <1>6, <1>7, RowsKept DEF DispatchInv

-----------------------------------------------------------------------------
LEMMA WorkerStepInv ==
    ASSUME DispatchInv, NEW w \in Owners, DispatchStep(w) \/ Abort(w), ~Post(w)
    PROVE  [SessionNext]_sessionVars /\ DispatchInv' /\ UNCHANGED brokerVars
<1>1. CASE Lookup(w) \/ LookupFails(w) \/ Preflight(w) \/ SendWindow(w)
           \/ NoResponse(w) \/ GetFails(w) \/ Abort(w)
  BY <1>1, LooksInv DEF Lookup, LookupFails, Preflight, SendWindow, NoResponse, GetFails, Abort
<1>2. CASE Refresh(w) \/ Response(w) \/ Get(w)
  BY <1>2, LearnsInv DEF Refresh, Response, Get
<1>3. CASE Persist(w)
  BY <1>3, PersistInv DEF Persist
<1>4. CASE ClaimIntent(w)
  BY <1>4, ClaimIntentInv DEF ClaimIntent
<1>5. CASE RejectIntent(w) \/ MarkUncertain(w) \/ Reconcile(w) \/ Record(w)
  BY <1>5, RecordsInv DEF RejectIntent, MarkUncertain, Reconcile, Record
<1>6. CASE Reserve(w) \/ ReserveDenied(w) \/ Validate(w) \/ SubmitDenied(w)
  BY <1>6, AsksGateInv DEF Reserve, ReserveDenied, Validate, SubmitDenied
<1>7. CASE Submit(w)
  BY <1>7, SubmitInv DEF Submit
<1>. QED BY <1>1, <1>2, <1>3, <1>4, <1>5, <1>6, <1>7 DEF DispatchStep

\* Every step is a step of the sessions, keeps the invariant, and moves requests and
\* orders in one of two ways only.
LEMMA DispatchStepInv ==
    ASSUME DispatchInv, [DispatchNext]_dispatchVars
    PROVE  /\ [SessionNext]_sessionVars /\ DispatchInv'
           /\ \/ UNCHANGED brokerVars
              \/ \E w \in Owners : Post(w)
              \/ \E i \in Intents : BrokerMoves(i)
<1>1. CASE UNCHANGED dispatchVars
  <2>1. UNCHANGED sessionVars /\ UNCHANGED brokerVars /\ UNCHANGED worker
    BY <1>1 DEF dispatchVars
  <2>2. SessionInv' /\ \A i \in Intents : RowStep(i)
    BY <2>1, NothingMoves
  <2>3. \A w \in Owners : WorkerOK(w)'
    BY <2>1, <2>2, OtherWorkers
  <2>4. SenderAlone' /\ worker' \in [Owners -> Worker]
    BY <2>1 DEF DispatchInv, SenderAlone
  <2>. QED BY <2>1, <2>2, <2>3, <2>4, RowsKept DEF DispatchInv
<1>2. ASSUME NEW w \in Owners, NEW i \in Intents,
             StartRecover(w, i) \/ \E s \in Sessions : StartDispatch(w, i, s)
      PROVE  [SessionNext]_sessionVars /\ DispatchInv' /\ UNCHANGED brokerVars
  BY <1>2, LearnsInv DEF StartRecover, StartDispatch
<1>3. ASSUME NEW w \in Owners, DispatchStep(w) \/ Abort(w)
      PROVE  [SessionNext]_sessionVars /\ DispatchInv' /\ (UNCHANGED brokerVars \/ Post(w))
  BY <1>3, WorkerStepInv, PostInv
<1>4. ASSUME NEW i \in Intents, BrokerMoves(i)
      PROVE  [SessionNext]_sessionVars /\ DispatchInv'
  BY <1>4, BrokerInv
<1>. QED BY <1>1, <1>2, <1>3, <1>4, SurroundingsInv DEF DispatchNext, BrokerMoves

LEMMA DispatchAlways == DispatchSpec => []DispatchInv
<1>1. DispatchInv /\ [DispatchNext]_dispatchVars => DispatchInv'
  BY DispatchStepInv
<1>. QED BY <1>1, DispatchInitInv, PTL DEF DispatchSpec

\* Every reachable state of the composition is well typed.
THEOREM DispatchTypeCorrect == DispatchSpec => []DispatchTypeOK
<1>1. DispatchInv => DispatchTypeOK
  BY DEF DispatchInv, SessionInv, RowsInv, IntentInv, LeaseInv, IntentTypeOK, SessionTypeOK,
         DispatchTypeOK
<1>. QED BY <1>1, DispatchAlways, PTL

\* However workers interleave with the broker, the three tables behave as under any
\* client: what holds of the sessions holds in the composition.
THEOREM DispatchImplementsSessions == DispatchSpec => SessionSpec
<1>1. DispatchInit => SessionInit
  BY DEF DispatchInit
<1>2. DispatchInv /\ [DispatchNext]_dispatchVars => [SessionNext]_sessionVars
  BY DispatchStepInv
<1>. QED BY <1>1, <1>2, DispatchAlways, PTL DEF DispatchSpec, SessionSpec

\* An intent is posted at most once, and only after it was fenced.
THEOREM PostsAtMostOnce == DispatchSpec => []AtMostOnePost
<1>1. DispatchInv => AtMostOnePost
  BY DEF DispatchInv, IntentOK, AtMostOnePost
<1>. QED BY <1>1, DispatchAlways, PTL

\* A terminal row has the status of its order at the broker, or nothing was ever sent.
LEMMA TerminalTruth ==
    ASSUME DispatchInv, NEW i \in Intents, intents[i].status \in Terminal
    PROVE  IF intents[i].evidence THEN orders[i] = intents[i].status ELSE posts[i] = 0
<1>1. IntentOK(i) /\ intents[i] \in Row /\ RowOK(i, intents[i])
  BY DEF DispatchInv, SessionInv, IntentInv
<1>2. ~intents[i].evidence => intents[i].attempts = 0
  BY <1>1 DEF RowOK
<1>. QED BY <1>1, <1>2 DEF IntentOK

THEOREM TerminalTellsTruth == DispatchSpec => []TruthfulTerminal
<1>1. DispatchInv => TruthfulTerminal
  BY TerminalTruth DEF TruthfulTerminal
<1>. QED BY <1>1, DispatchAlways, PTL

\* An order on its way or open has an active row, and the index allows one.
LEMMA WorkingExposed ==
    ASSUME DispatchInv, NEW i \in Intents, intents[i].attempts = 1,
           orders[i] \in {"none", "open"}
    PROVE  i \in Paper => intents[i].status \in Active /\ intents[i].status \notin Terminal
<1>1. intents[i].status \notin Terminal
  <2>1. ~intents[i].evidence /\ intents[i].status \in Terminal => intents[i].attempts = 0
    BY DEF DispatchInv, SessionInv, IntentInv, RowOK
  <2>. QED BY <2>1, TerminalTruth DEF Terminal
<1>. QED BY <1>1, ExposedIsActive DEF Exposed, DispatchInv, SessionInv

LEMMA WorkingFenced ==
    ASSUME DispatchInv, NEW i \in Intents, Working(i)
    PROVE  i \in Paper /\ intents[i].attempts = 1 /\ orders[i] \in {"none", "open"}
<1>1. IntentOK(i) /\ intents[i].attempts \in 0..1
  BY DEF DispatchInv, SessionInv, IntentInv, Row
<1>. QED BY <1>1 DEF Working, IntentOK

LEMMA WorkingAlone ==
    ASSUME DispatchInv, NEW i \in Intents, intents[i].attempts = 1, i \in Paper,
           orders[i] \in {"none", "open"}, NEW j \in Intents, Working(j)
    PROVE  i = j
<1>1. intents[i].status \in Active /\ intents[j].status \in Active /\ j \in Paper
  BY WorkingExposed, WorkingFenced
<1>. QED BY <1>1 DEF DispatchInv, SessionInv, IntentInv, OneActiveRow

\* One order sent by the program is on its way or working, across workers and sessions.
THEOREM OneWorkingOrder == DispatchSpec => []SingleWorkingOrder
<1>1. ASSUME DispatchInv PROVE SingleWorkingOrder
  BY <1>1, WorkingExposed, WorkingFenced, WorkingAlone DEF SingleWorkingOrder
<1>. QED BY <1>1, DispatchAlways, PTL

-----------------------------------------------------------------------------
SentSet == {i \in Intents : posts[i] > 0}
WorkingSet == {i \in Intents : Working(i)}

\* A POST sends, while nothing else is working; the broker may end what is.
LEMMA AccountStep ==
    ASSUME DispatchInv, [DispatchNext]_dispatchVars
    PROVE  \/ \E i \in Intents : Account!Send(i) \/ Account!End(i)
           \/ SentSet' = SentSet /\ WorkingSet' = WorkingSet
<1>1. CASE UNCHANGED brokerVars
  BY <1>1 DEF brokerVars, SentSet, WorkingSet, Working
<1>2. ASSUME NEW w \in Owners, Post(w), NEW i \in Intents, i = I(w) PROVE Account!Send(i)
  <2>1. /\ i \in Paper /\ i \in Intents
        /\ posts[i] = 0 /\ intents[i].attempts = 1 /\ orders[i] = "none"
        /\ posts' = [posts EXCEPT ![i] = 1] /\ posts \in [Intents -> Nat]
        /\ wire' = wire \cup {i} /\ orders' = orders
    BY <1>2, PostInv, AtStep DEF Post, Is, DispatchInv
  <2>2. \A j \in Intents : ~Working(j)
    BY <2>1, WorkingAlone DEF Working
  <2>3. posts'[i] = 1 /\ \A j \in Intents \ {i} : posts'[j] = posts[j]
    BY <2>1
  <2>4. SentSet' = SentSet \cup {i} /\ i \notin SentSet /\ WorkingSet = {}
    BY <2>1, <2>2, <2>3 DEF SentSet, WorkingSet
  <2>5. WorkingSet' = {i}
    BY <2>1, <2>2, <2>3 DEF WorkingSet, Working
  <2>. QED BY <2>4, <2>5 DEF Account!Send, SentSet, WorkingSet
<1>3. ASSUME NEW i \in Intents, BrokerMoves(i)
      PROVE  Account!End(i) \/ (SentSet' = SentSet /\ WorkingSet' = WorkingSet)
  <2>1. /\ UNCHANGED posts /\ wire' \in {wire, wire \ {i}}
        /\ \A j \in Intents \ {i} : orders'[j] = orders[j]
    BY <1>3, BrokerInv
  <2>2. SentSet' = SentSet /\ \A j \in Intents \ {i} : Working(j)' <=> Working(j)
    BY <2>1 DEF SentSet, Working
  <2>3. CASE Working(i)' <=> Working(i)
    BY <2>2, <2>3 DEF WorkingSet
  <2>4. CASE Working(i) /\ ~Working(i)'
    <3>1. WorkingSet' = WorkingSet \ {i} /\ i \in WorkingSet
      BY <2>2, <2>4 DEF WorkingSet
    <3>2. SentSet' = SentSet
      BY <2>2
    <3>. QED BY <3>1, <3>2 DEF Account!End, SentSet, WorkingSet
  <2>5. Working(i)' => Working(i)
    <3>1. i \in wire \/ orders[i] = "open"
      BY <1>3 DEF BrokerMoves, Deliver, BrokerEnds
    <3>. QED BY <2>1, <3>1 DEF Working
  <2>. QED BY <2>3, <2>4, <2>5
<1>4. ASSUME NEW w \in Owners, Post(w) PROVE I(w) \in Intents
  BY <1>4, AtStep DEF Post, Is
<1>5. CASE \E w \in Owners : Post(w)
  <2>1. PICK w \in Owners : Post(w)
    BY <1>5
  <2>2. PICK i \in Intents : i = I(w)
    BY <1>4, <2>1
  <2>. QED BY <1>2, <2>1, <2>2
<1>6. CASE \E i \in Intents : BrokerMoves(i)
  <2>1. PICK i \in Intents : BrokerMoves(i)
    BY <1>6
  <2>2. Account!End(i) \/ (SentSet' = SentSet /\ WorkingSet' = WorkingSet)
    BY <1>3, <2>1
  <2>. QED BY <2>2
<1>. QED BY <1>1, <1>5, <1>6, DispatchStepInv

\* What happens at the broker implements the promise to the account.
THEOREM AccountKept == DispatchSpec => AccountKeepsPromise
<1>1. DispatchInit => Account!Init
  <2>. SUFFICES ASSUME DispatchInit PROVE Account!Init
    OBVIOUS
  <2>1. \A i \in Intents : posts[i] = 0
    BY DEF DispatchInit
  <2>. QED BY <2>1 DEF Account!Init, Working
<1>2. DispatchInv /\ [DispatchNext]_dispatchVars => [Account!Next]_<<SentSet, WorkingSet>>
  BY AccountStep DEF Account!Next
<1>. QED BY <1>1, <1>2, DispatchAlways, PTL
         DEF DispatchSpec, AccountKeepsPromise, Account!Spec, SentSet, WorkingSet
-----------------------------------------------------------------------------
\* What the broker was asked to do on account of a session, and that it is all there is
\* and within every limit of the session's document.
SentFor(s) == {i \in sessions[s].reserved : posts[i] > 0}
SpendWithinLimits ==
    /\ \A i \in Intents : posts[i] > 0 =>
          /\ posts[i] = 1
          /\ \E s \in Sessions : \A q \in Sessions : i \in sessions[q].reserved <=> q = s
    /\ \A s \in Sessions :
          /\ Cardinality(SentFor(s)) <= Limits[s].total
          /\ Cardinality(SentFor(s) \cap Opening) <= Limits[s].opening
          /\ Cardinality(SentFor(s) \ Opening) <= Limits[s].closing
          /\ Total(Risk, SentFor(s)) <= Limits[s].risk

LEMMA SentWithinLedger ==
    ASSUME SessionTypeOK, LedgerInv, NEW s \in Sessions
    PROVE  /\ Cardinality(SentFor(s)) <= Limits[s].total
           /\ Cardinality(SentFor(s) \cap Opening) <= Limits[s].opening
           /\ Cardinality(SentFor(s) \ Opening) <= Limits[s].closing
           /\ Total(Risk, SentFor(s)) <= Limits[s].risk
<1>. DEFINE R == sessions[s].reserved
            sent == SentFor(s)
<1>1. R \in SUBSET Intents /\ sent \in SUBSET R /\ sent \in SUBSET Intents
  BY DEF SessionTypeOK, Session, SentFor
<1>2. /\ IsFiniteSet(R)
      /\ Cardinality(R \cap Opening) <= Limits[s].opening
      /\ Cardinality(R \ Opening) <= Limits[s].closing
      /\ Cardinality(R \cap Opening) + Cardinality(R \ Opening) <= Limits[s].total
      /\ Total(Risk, R) <= Limits[s].risk
  BY DEF LedgerInv, RowLedger
<1>3. /\ Limits[s].opening \in Nat /\ Limits[s].closing \in Nat /\ Limits[s].total \in Nat
      /\ Limits[s].risk \in Nat
  BY SessionConstants DEF Limit
<1>. HIDE DEF R, sent
<1>4. /\ IsFiniteSet(R \cap Opening) /\ IsFiniteSet(R \ Opening) /\ IsFiniteSet(sent)
      /\ IsFiniteSet(sent \cap Opening) /\ IsFiniteSet(sent \ Opening)
  BY <1>1, <1>2, FS_Subset
<1>5. /\ Cardinality(R \cap Opening) \in Nat /\ Cardinality(R \ Opening) \in Nat
      /\ Cardinality(sent \cap Opening) \in Nat /\ Cardinality(sent \ Opening) \in Nat
      /\ Cardinality(sent) \in Nat
  BY <1>4, FS_CardinalityType
<1>6. /\ Cardinality(sent \cap Opening) <= Cardinality(R \cap Opening)
      /\ Cardinality(sent \ Opening) <= Cardinality(R \ Opening)
  <2>1. sent \cap Opening \in SUBSET (R \cap Opening) /\ sent \ Opening \in SUBSET (R \ Opening)
    BY <1>1
  <2>. QED BY <1>4, <2>1, FS_Subset
<1>7. Cardinality(sent) = Cardinality(sent \cap Opening) + Cardinality(sent \ Opening)
  <2>. DEFINE A == sent \cap Opening
              B == sent \ Opening
  <2>1. sent = A \cup B /\ A \cap B = {}
    OBVIOUS
  <2>2. IsFiniteSet(A) /\ IsFiniteSet(B)
    BY <1>4
  <2>3. Cardinality(A \cup B) = Cardinality(A) + Cardinality(B) - Cardinality(A \cap B)
    BY <2>2, FS_Union
  <2>4. Cardinality(A \cap B) = 0
    BY <2>1, FS_EmptySet
  <2>5. Cardinality(A) \in Nat /\ Cardinality(B) \in Nat
    BY <1>5
  <2>. HIDE DEF A, B
  <2>6. Cardinality(sent) = Cardinality(A) + Cardinality(B)
    BY <2>1, <2>3, <2>4, <2>5
  <2>. QED BY <2>6 DEF A, B
<1>8. Total(Risk, sent) <= Total(Risk, R) /\ Total(Risk, sent) \in Int /\ Total(Risk, R) \in Int
  <2>1. \A i \in R : Risk[i] \in Nat
    BY <1>1, SessionConstants
  <2>2. R \in SUBSET R
    OBVIOUS
  <2>3. Total(Risk, sent) <= Total(Risk, R)
    BY <1>1, <1>2, <2>1, SubtotalAtMost
  <2>4. Total(Risk, sent) \in Int /\ Total(Risk, R) \in Int
    BY <1>1, <1>2, <2>1, <2>2, TotalType
  <2>. QED BY <2>3, <2>4
<1>. QED BY <1>2, <1>3, <1>5, <1>6, <1>7, <1>8 DEF sent

\* However workers crash, stall and recover, what reaches the broker stays within the
\* documents that a human approved: every request was paid for by one session, and the
\* requests of a session, those to open, those to close, and their risk together, keep its
\* limits.
THEOREM BrokerWithinBudget == DispatchSpec => []SpendWithinLimits
<1>1. ASSUME DispatchInv, LedgerInv PROVE SpendWithinLimits
  <2>1. SessionTypeOK
    BY <1>1 DEF DispatchInv, SessionInv, RowsInv, IntentInv, LeaseInv, IntentTypeOK, SessionTypeOK
  <2>2. ASSUME NEW i \in Intents, posts[i] > 0
        PROVE  /\ posts[i] = 1
               /\ \E s \in Sessions : \A q \in Sessions : i \in sessions[q].reserved <=> q = s
    <3>1. i \in Paper /\ intents[i].attempts = 1 /\ posts[i] = 1
      BY <1>1, <2>1, <2>2 DEF DispatchInv, IntentOK, DispatchTypeOK, SessionTypeOK, IntentTypeOK, Row
    <3>2. PICK s \in Sessions : i \in sessions[s].reserved
      BY <1>1, <3>1 DEF DispatchInv, SessionInv, PaperReserved
    <3>3. \A q \in Sessions : i \in sessions[q].reserved => q = s
      BY <1>1, <3>2 DEF DispatchInv, SessionInv, RowsInv, ReservedOnce
    <3>. QED BY <3>1, <3>2, <3>3
  <2>. QED BY <1>1, <2>1, <2>2, SentWithinLedger DEF SpendWithinLimits
<1>. QED BY <1>1, DispatchAlways, DispatchImplementsSessions, LedgerAlways, PTL
=============================================================================

----------------------------- MODULE Phase1_proofs -----------------------------
(***************************************************************************)
(* The one-shot order of Phase 1 for any number of replicas, concurrent    *)
(* requests, contracts, prices and receipts: at most one POST, of the      *)
(* order that was claimed and approved twice, and the gate stays off.      *)
(***************************************************************************)
EXTENDS Phase1, TLAPS

Settings == [configured: BOOLEAN, enabled: BOOLEAN, attempted: BOOLEAN]
Owning == {"audit", "lookup", "post"}

\* Approved under a readiness receipt of the same contract, no cheaper.
HasReady(receipts, doc) == \E r \in receipts :
    /\ r[2] = "readiness" /\ doc.readiness = r[1].id
    /\ doc.symbol = r[1].symbol /\ doc.price <= r[1].price

\* Approved again under an execution receipt given for that readiness.
ApprovedTwice(receipts, doc) == \E e \in receipts :
    /\ e[2] = "execution" /\ e[1].id = doc.id
    /\ doc.symbol = e[1].symbol /\ doc.price <= e[1].price
    /\ HasReady(receipts, e[1])

KindOK(q) ==
    /\ q.pc # "idle" => q.at \in Replicas
    /\ q.pc \in {"unclaimed", "build"} => q.kind # "reconcile"
    /\ q.pc = "ready" => q.kind \in {"execution", "submission"}
    /\ q.pc = "store" => q.kind \in Stages
    /\ q.pc \in Owning \cup {"approved", "claim", "answer", "lost", "record"} => q.kind = "submission"
    /\ q.pc \in {"latest", "claimed", "find", "by_id", "persist"} => q.kind = "reconcile"

\* What the local variables of a handler say of the receipts and of the broker.
LocalsOK(q, receipts, order) ==
    /\ q.pc = "build" /\ q.kind = "execution" =>
          <<q.ready, "readiness">> \in receipts /\ q.ready.id = q.readiness
    /\ q.pc = "build" /\ q.kind = "submission" =>
          <<q.approved, "execution">> \in receipts /\ q.approved.id = q.execution
    /\ q.pc = "store" /\ q.kind = "execution" => HasReady(receipts, q.fresh)
    /\ q.pc = "claim" => q.fresh # Blank /\ ApprovedTwice(receipts, q.fresh)
    /\ q.pc \in {"record", "persist"} =>
          q.seen # "none" /\ order # "none" /\ (q.seen = "filled" => order = "filled")

\* The receipts: the rows show receipts that were issued, every execution receipt is
\* given for a readiness receipt.
ReceiptsOK ==
    /\ \A s \in Stages : row[s].doc.id # 0 => <<row[s].doc, s>> \in issued
    /\ \A e \in issued : e[2] = "execution" => HasReady(issued, e[1])

\* The claim: it is made once, by a request that owns the order from then on.
ClaimOK ==
    /\ claim = Blank => posts = 0
    /\ claim # Blank => ApprovedTwice(issued, claim)
    /\ posts = 0 => sent = {} /\ ~wire /\ broker = "none"
    /\ wire => broker = "none"
    /\ \A doc \in sent : doc = claim
    /\ orders # "none" => broker # "none"
    /\ orders = "filled" => broker = "filled"

Owns(c) == request[c].pc \in Owning
OwnersOK ==
    /\ \A c \in Requests : Owns(c) => posts = 0 /\ claim # Blank /\ request[c].fresh = claim
    /\ \A c, d \in Requests : Owns(c) /\ Owns(d) => c = d

RequestsOK == \A c \in Requests : KindOK(request[c]) /\ LocalsOK(request[c], issued, broker)

Phase1Inv ==
    /\ Phase1TypeOK /\ GateStaysOff
    /\ ReceiptsOK /\ ClaimOK /\ OwnersOK /\ RequestsOK

-----------------------------------------------------------------------------
LEMMA ApprovalsLast ==
    ASSUME NEW doc, NEW receipts, NEW more, receipts \subseteq more
    PROVE  /\ HasReady(receipts, doc) => HasReady(more, doc)
           /\ ApprovedTwice(receipts, doc) => ApprovedTwice(more, doc)
BY DEF HasReady, ApprovedTwice

\* Receipts are only added, and an order the broker has, or has filled, stays so.
Grows(order, later) == (order # "none" => later # "none") /\ (order = "filled" => later = "filled")

LEMMA LocalsLast ==
    ASSUME NEW q, NEW receipts, NEW more, receipts \subseteq more,
           NEW order, NEW later, Grows(order, later), LocalsOK(q, receipts, order)
    PROVE  LocalsOK(q, more, later)
BY ApprovalsLast DEF LocalsOK, Grows

LEMMA IdleOK ==
    /\ Idle \in Call /\ Idle.pc = "idle" /\ KindOK(Idle)
    /\ \A receipts, order : LocalsOK(Idle, receipts, order)
<1>1. Blank \in Document
  BY Phase1Constants DEF Blank, Document
<1>2. 0 \in 0..MaxReceipts
  BY Phase1Constants
<1>3. Idle \in Call
  BY <1>1, <1>2 DEF Idle, Call, Pcs, Stages, OrderStatus
<1>4. Idle.pc = "idle"
  BY DEF Idle
<1>. HIDE DEF Idle
<1>. QED BY <1>3, <1>4 DEF KindOK, LocalsOK, Owning

LEMMA Phase1InitInv == Init1 => Phase1Inv
<1>. SUFFICES ASSUME Init1 PROVE Phase1Inv
  OBVIOUS
<1>1. Blank \in Document /\ Blank.id = 0
  BY Phase1Constants DEF Blank, Document
<1>2. Phase1TypeOK
  <2>1. [doc |-> Blank, live |-> FALSE] \in [doc: Document, live: BOOLEAN]
    BY <1>1
  <2>2. [configured |-> FALSE, enabled |-> FALSE, attempted |-> FALSE]
           \in [configured: BOOLEAN, enabled: BOOLEAN, attempted: BOOLEAN]
    OBVIOUS
  <2>3. replica \in [Replicas -> [configured: BOOLEAN, enabled: BOOLEAN, attempted: BOOLEAN]]
    BY <2>2 DEF Init1
  <2>4. row \in [Stages -> [doc: Document, live: BOOLEAN]]
    BY <2>1 DEF Init1
  <2>5. request \in [Requests -> Call]
    BY IdleOK DEF Init1
  <2>6. issued = {} /\ sent = {} /\ posts = 0 /\ claim = Blank
    BY DEF Init1
  <2>7. sdk \in BOOLEAN /\ wire \in BOOLEAN /\ orders \in OrderStatus /\ broker \in OrderStatus
    BY DEF Init1, OrderStatus
  <2>8. posts \in 0..1
    BY <2>6
  <2>. QED BY <1>1, <2>3, <2>4, <2>5, <2>6, <2>7, <2>8 DEF Phase1TypeOK
<1>3. GateStaysOff /\ ReceiptsOK /\ ClaimOK
  BY <1>1 DEF Init1, GateStaysOff, ReceiptsOK, ClaimOK, Stages
<1>4. OwnersOK /\ RequestsOK
  BY IdleOK DEF Init1, OwnersOK, Owns, Owning, RequestsOK
<1>. QED BY <1>2, <1>3, <1>4 DEF Phase1Inv

-----------------------------------------------------------------------------
(* A step of one request.                                                  *)

LEMMA RequestMoves ==
    ASSUME Phase1Inv, NEW c \in Requests, NEW q \in Call, Set1(c, q),
           KindOK(q), LocalsOK(q, issued', broker'),
           issued \subseteq issued', Grows(broker, broker')
    PROVE  /\ request' \in [Requests -> Call] /\ RequestsOK'
           /\ \A d \in Requests : request'[d] = IF d = c THEN q ELSE request[d]
<1>1. request \in [Requests -> Call]
  BY DEF Phase1Inv, Phase1TypeOK
<1>2. request' = [request EXCEPT ![c] = q]
  BY DEF Set1
<1>3. request' \in [Requests -> Call]
  BY <1>1, <1>2
<1>4. \A d \in Requests : request'[d] = IF d = c THEN q ELSE request[d]
  BY <1>1, <1>2
<1>5. ASSUME NEW d \in Requests
      PROVE  KindOK(request'[d]) /\ LocalsOK(request'[d], issued', broker')
  <2>1. CASE d = c
    BY <1>4, <2>1
  <2>2. CASE d # c
    BY <1>4, <2>2, LocalsLast DEF Phase1Inv, RequestsOK
  <2>. QED BY <2>1, <2>2
<1>. QED BY <1>3, <1>4, <1>5 DEF RequestsOK

\* A handler that ends leaves the gate off if its request could have ordered.
LEMMA EndsOK ==
    ASSUME Phase1Inv, NEW c \in Requests, NEW shut \in BOOLEAN, Ends(c, shut),
           request[c].pc # "idle", request[c].kind = "submission" => shut
    PROVE  Set1(c, Idle) /\ replica' \in [Replicas -> Settings] /\ GateStaysOff'
<1>. DEFINE p == request[c].at
<1>1. p \in Replicas /\ replica \in [Replicas -> Settings]
  BY DEF Phase1Inv, RequestsOK, KindOK, Phase1TypeOK, Settings
<1>. DEFINE s == [configured |-> replica[p].configured, enabled |-> replica[p].enabled /\ ~shut,
                  attempted |-> replica[p].attempted \/ request[c].kind = "submission"]
<1>2. replica' = [replica EXCEPT ![p] = s]
  BY DEF Ends
<1>3. s \in Settings /\ (s.attempted => ~s.enabled)
  BY <1>1 DEF Settings, Phase1Inv, GateStaysOff
<1>. HIDE DEF p, s
<1>. QED BY <1>1, <1>2, <1>3 DEF Ends, GateStaysOff, Phase1Inv

LEMMA OffOK ==
    ASSUME Phase1Inv, NEW c \in Requests, Off(c), request[c].pc # "idle"
    PROVE  replica' \in [Replicas -> Settings] /\ GateStaysOff'
<1>1. request[c].at \in Replicas /\ replica \in [Replicas -> Settings]
  BY DEF Phase1Inv, RequestsOK, KindOK, Phase1TypeOK, Settings
<1>. QED BY <1>1 DEF Off, GateStaysOff, Settings, Phase1Inv

\* A step that leaves receipts, claim and broker alone, and writes the order row
\* only with what the broker has.
LEMMA QuietStep ==
    ASSUME Phase1Inv, NEW c \in Requests, NEW q \in Call, Set1(c, q),
           KindOK(q), LocalsOK(q, issued, broker),
           q.pc \in Owning => Owns(c) /\ q.fresh = request[c].fresh,
           replica' \in [Replicas -> Settings], GateStaysOff',
           orders' \in OrderStatus, Grows(orders', broker),
           UNCHANGED <<Outside, issued, row, claim, wire, sent, posts>>
    PROVE  Phase1Inv'
<1>. USE DEF Outside
<1>1. /\ request' \in [Requests -> Call] /\ RequestsOK'
      /\ \A d \in Requests : request'[d] = IF d = c THEN q ELSE request[d]
  BY RequestMoves DEF Grows
<1>2. Phase1TypeOK'
  BY <1>1 DEF Phase1Inv, Phase1TypeOK, Settings
<1>3. ReceiptsOK'
  BY DEF Phase1Inv, ReceiptsOK
<1>4. ClaimOK'
  BY DEF Phase1Inv, ClaimOK, Grows
<1>5. OwnersOK'
  BY <1>1 DEF Phase1Inv, OwnersOK, Owns
<1>. QED BY <1>1, <1>2, <1>3, <1>4, <1>5 DEF Phase1Inv

-----------------------------------------------------------------------------
(* The awaits of the handlers that only move on.                           *)

LEMMA RowOK1 ==
    ASSUME Phase1Inv, NEW c \in Requests
    PROVE  /\ request[c] \in Call /\ KindOK(request[c]) /\ LocalsOK(request[c], issued, broker)
           /\ replica \in [Replicas -> Settings] /\ GateStaysOff
           /\ row \in [Stages -> [doc: Document, live: BOOLEAN]]
           /\ orders \in OrderStatus /\ broker \in OrderStatus /\ Grows(orders, broker)
BY DEF Phase1Inv, Phase1TypeOK, RequestsOK, Settings, ClaimOK, Grows

\* Moving on to an await whose locals nothing is said of.
Plain == {"idle", "unclaimed", "ready", "approved", "audit", "lookup", "post", "answer", "lost",
          "latest", "claimed", "find", "by_id"}

LEMMA GoesOn ==
    ASSUME Phase1Inv, NEW c \in Requests, NEW pc \in Plain, Goto(c, pc),
           KindOK([request[c] EXCEPT !.pc = pc]), pc \in Owning => Owns(c),
           replica' \in [Replicas -> Settings], GateStaysOff',
           orders' \in OrderStatus, Grows(orders', broker),
           UNCHANGED <<Outside, issued, row, claim, wire, sent, posts>>
    PROVE  Phase1Inv'
<1>. DEFINE q == [request[c] EXCEPT !.pc = pc]
<1>1. request[c] \in Call
  BY RowOK1
<1>2. q \in Call /\ q.pc = pc /\ q.fresh = request[c].fresh
  BY <1>1 DEF Call, Pcs, Plain
<1>3. Set1(c, q) /\ KindOK(q)
  BY DEF Goto
<1>. HIDE DEF q
<1>4. LocalsOK(q, issued, broker)
  BY <1>2 DEF LocalsOK, Plain
<1>. QED BY <1>2, <1>3, <1>4, QuietStep

LEMMA HandlerEnds ==
    ASSUME Phase1Inv, NEW c \in Requests, NEW shut \in BOOLEAN, Ends(c, shut),
           request[c].pc # "idle", request[c].kind = "submission" => shut,
           orders' \in OrderStatus, Grows(orders', broker),
           UNCHANGED <<Outside, issued, row, claim, wire, sent, posts>>
    PROVE  Phase1Inv'
<1>1. Set1(c, Idle) /\ replica' \in [Replicas -> Settings] /\ GateStaysOff'
  BY EndsOK
<1>2. Idle \in Call /\ KindOK(Idle) /\ LocalsOK(Idle, issued, broker) /\ Idle.pc \notin Owning
  BY IdleOK DEF Owning
<1>. QED BY <1>1, <1>2, QuietStep

LEMMA RaiseInv == ASSUME Phase1Inv, NEW c \in Requests, Raise(c) PROVE Phase1Inv'
<1>1. Orderer(c) \in BOOLEAN /\ (request[c].kind = "submission" => Orderer(c))
  BY DEF Orderer
<1>2. orders' \in OrderStatus /\ Grows(orders', broker)
  BY RowOK1 DEF Raise, Audit
<1>. QED BY <1>1, <1>2, HandlerEnds DEF Raise, Audit

LEMMA ArriveInv ==
    ASSUME Phase1Inv, NEW c \in Requests, NEW p \in Replicas,
           NEW kind \in Stages \cup {"submission", "reconcile"},
           NEW pc, pc = IF kind = "reconcile" THEN "latest" ELSE "unclaimed",
           NEW r \in 0..MaxReceipts, NEW e \in 0..MaxReceipts, Arrive(c, p, kind, pc, r, e)
    PROVE  Phase1Inv'
<1>. DEFINE q == [Idle EXCEPT !.at = p, !.pc = pc, !.kind = kind, !.readiness = r, !.execution = e]
<1>1. Idle \in Call
  BY IdleOK
<1>2. q \in Call /\ q.pc = pc /\ q.kind = kind /\ q.at = p
  BY <1>1 DEF Call, Pcs
<1>3. Set1(c, q)
  BY DEF Arrive
<1>. HIDE DEF q
<1>4. KindOK(q) /\ LocalsOK(q, issued, broker) /\ q.pc \notin Owning
  BY <1>2 DEF KindOK, LocalsOK, Owning
<1>5. replica' = replica /\ UNCHANGED <<Outside, Audit, wire, sent, posts>>
  BY DEF Arrive
<1>6. /\ replica' \in [Replicas -> Settings] /\ GateStaysOff'
      /\ orders' \in OrderStatus /\ Grows(orders', broker)
  BY <1>5, RowOK1 DEF GateStaysOff, Audit
<1>. QED BY <1>2, <1>3, <1>4, <1>5, <1>6, QuietStep DEF Audit

\* A route is entered with receipts that were issued.
LEMMA EntryInv ==
    ASSUME Phase1Inv, NEW c \in Requests, NEW p \in Replicas,
           \/ ReadinessArrives(c, p) \/ ExecutionArrives(c, p)
           \/ SubmissionArrives(c, p) \/ ReconcileArrives(c, p)
    PROVE  Phase1Inv'
<1>1. Receipts \subseteq 0..MaxReceipts /\ 0 \in 0..MaxReceipts
  BY Phase1Constants DEF Phase1Inv, Phase1TypeOK, Receipts, Document
<1>2. CASE ReadinessArrives(c, p)
  BY <1>1, <1>2, ArriveInv DEF ReadinessArrives, Stages
<1>3. CASE ExecutionArrives(c, p)
  BY <1>1, <1>3, ArriveInv DEF ExecutionArrives, Stages
<1>4. CASE SubmissionArrives(c, p)
  BY <1>1, <1>4, ArriveInv DEF SubmissionArrives, Stages
<1>5. CASE ReconcileArrives(c, p)
  BY <1>1, <1>5, ArriveInv DEF ReconcileArrives, Stages
<1>. QED BY <1>2, <1>3, <1>4, <1>5

\* The steps that only go to another await.
LEMMA MoveInv ==
    ASSUME Phase1Inv, NEW c \in Requests, NEW pc \in Plain, Goto(c, pc),
           request[c].pc # "idle",
           pc \in Owning => Owns(c),
           KindOK([request[c] EXCEPT !.pc = pc]),
           UNCHANGED <<Outside, Audit, replica, wire, sent, posts>>
    PROVE  Phase1Inv'
<1>1. /\ replica' \in [Replicas -> Settings] /\ GateStaysOff'
      /\ orders' \in OrderStatus /\ Grows(orders', broker)
  BY RowOK1 DEF GateStaysOff, Audit
<1>. QED BY <1>1, GoesOn DEF Audit

LEMMA WalkInv ==
    ASSUME Phase1Inv, NEW c \in Requests,
           unclaimed(c) \/ AuditWritten(c) \/ TimedOut(c) \/ Latest(c)
    PROVE  Phase1Inv'
<1>. USE RowOK1
<1>1. CASE unclaimed(c)
  <2>. DEFINE pc == IF request[c].kind = "readiness" THEN "build" ELSE "ready"
  <2>1. CASE request[c].kind = "readiness"
    <3>. DEFINE q == [request[c] EXCEPT !.pc = "build"]
    <3>1. q \in Call /\ q.pc = "build" /\ q.kind = "readiness" /\ q.at = request[c].at
      BY <2>1 DEF Call, Pcs
    <3>2. Set1(c, q) /\ request[c].pc = "unclaimed"
      BY <1>1, <2>1 DEF unclaimed, Goto, At
    <3>. HIDE DEF q
    <3>3. KindOK(q) /\ LocalsOK(q, issued, broker) /\ q.pc \notin Owning
      BY <3>1, <3>2 DEF KindOK, LocalsOK, Owning
    <3>4. UNCHANGED <<Outside, Audit, replica, wire, sent, posts>>
      BY <1>1 DEF unclaimed
    <3>. QED BY <3>1, <3>2, <3>3, <3>4, QuietStep DEF Audit, GateStaysOff
  <2>2. CASE request[c].kind # "readiness"
    <3>1. Goto(c, "ready") /\ request[c].pc = "unclaimed"
      BY <1>1, <2>2 DEF unclaimed, At
    <3>2. KindOK([request[c] EXCEPT !.pc = "ready"])
      BY <2>2, <3>1 DEF KindOK, Call, Stages, Owning
    <3>. QED BY <1>1, <3>1, <3>2, MoveInv DEF unclaimed, Plain, Owning
  <2>. QED BY <2>1, <2>2
<1>2. CASE AuditWritten(c)
  <2>1. Goto(c, "lookup") /\ request[c].pc = "audit"
    BY <1>2 DEF AuditWritten, At
  <2>2. KindOK([request[c] EXCEPT !.pc = "lookup"])
    BY <2>1 DEF KindOK, Call, Owning
  <2>. QED BY <1>2, <2>1, <2>2, MoveInv DEF AuditWritten, Plain, Owning, Owns
<1>3. CASE TimedOut(c)
  <2>1. Goto(c, "lost") /\ request[c].pc = "answer" /\ Off(c)
    BY <1>3 DEF TimedOut, At
  <2>2. KindOK([request[c] EXCEPT !.pc = "lost"])
    BY <2>1 DEF KindOK, Call, Owning
  <2>3. replica' \in [Replicas -> Settings] /\ GateStaysOff'
    BY <2>1, OffOK
  <2>4. UNCHANGED <<Outside, Audit, wire, sent, posts>>
    BY <1>3 DEF TimedOut
  <2>. QED BY <2>1, <2>2, <2>3, <2>4, GoesOn DEF Plain, Owning, Audit
<1>4. CASE Latest(c)
  <2>1. PICK pc \in {"claimed", "by_id"} : Goto(c, pc)
    BY <1>4 DEF Latest
  <2>2. request[c].pc = "latest"
    BY <1>4 DEF Latest, At
  <2>3. KindOK([request[c] EXCEPT !.pc = pc])
    BY <2>1, <2>2 DEF KindOK, Call, Owning
  <2>. QED BY <1>4, <2>1, <2>2, <2>3, MoveInv DEF Latest, Plain, Owning
<1>. QED BY <1>1, <1>2, <1>3, <1>4

\* An order that was found is recorded with the status it has at the broker.
LEMMA SeenInv ==
    ASSUME Phase1Inv, NEW c \in Requests, NEW pc \in {"record", "persist"},
           Set1(c, [request[c] EXCEPT !.pc = pc, !.seen = broker]), broker # "none",
           request[c].pc # "idle",
           pc = "record" => request[c].kind = "submission",
           pc = "persist" => request[c].kind = "reconcile",
           replica' \in [Replicas -> Settings], GateStaysOff',
           UNCHANGED <<Outside, Audit, wire, sent, posts>>
    PROVE  Phase1Inv'
<1>. DEFINE q == [request[c] EXCEPT !.pc = pc, !.seen = broker]
<1>1. q \in Call /\ q.pc = pc /\ q.seen = broker /\ q.kind = request[c].kind
                  /\ q.at = request[c].at
  BY RowOK1 DEF Call, Pcs
<1>. HIDE DEF q
<1>2. KindOK(q) /\ LocalsOK(q, issued, broker) /\ q.pc \notin Owning
  BY <1>1, RowOK1 DEF KindOK, LocalsOK, Owning
<1>3. orders' \in OrderStatus /\ Grows(orders', broker)
  BY RowOK1 DEF Audit
<1>. QED BY <1>1, <1>2, <1>3, QuietStep DEF Audit, q

LEMMA FoundInv ==
    ASSUME Phase1Inv, NEW c \in Requests, Found(c), request[c].pc # "idle",
           request[c].kind = "submission", UNCHANGED <<Outside, Audit, wire, sent, posts>>
    PROVE  Phase1Inv'
BY OffOK, SeenInv DEF Found

LEMMA BrokerAnswersInv ==
    ASSUME Phase1Inv, NEW c \in Requests,
           Lookup(c) \/ Answered(c) \/ LookAgain(c) \/ ById(c)
    PROVE  Phase1Inv'
<1>. USE RowOK1
<1>1. CASE Lookup(c) /\ broker = "none"
  <2>1. Goto(c, "post") /\ request[c].pc = "lookup"
    BY <1>1 DEF Lookup, At
  <2>2. KindOK([request[c] EXCEPT !.pc = "post"])
    BY <2>1 DEF KindOK, Call, Owning
  <2>. QED BY <1>1, <2>1, <2>2, MoveInv DEF Lookup, Plain, Owning, Owns
<1>2. CASE Lookup(c) /\ broker # "none"
  BY <1>2, FoundInv DEF Lookup, At, KindOK, Owning
<1>3. CASE Answered(c) \/ LookAgain(c)
  BY <1>3, FoundInv DEF Answered, LookAgain, At, KindOK, Owning
<1>4. CASE ById(c)
  BY <1>4, SeenInv DEF ById, At, KindOK, GateStaysOff
<1>. QED BY <1>1, <1>2, <1>3, <1>4

LEMMA RecordsInv ==
    ASSUME Phase1Inv, NEW c \in Requests,
           Record(c) \/ Claimed(c) \/ Find(c) \/ Persist(c)
    PROVE  Phase1Inv'
<1>. USE RowOK1
<1>1. CASE Record(c) \/ Persist(c)
  <2>1. request[c].pc \in {"record", "persist"} /\ orders' = request[c].seen
    BY <1>1 DEF Record, Persist, At
  <2>2. orders' \in OrderStatus /\ Grows(orders', broker)
    BY <2>1 DEF LocalsOK, Grows, Call
  <2>3. PICK shut \in BOOLEAN : Ends(c, shut) /\ (request[c].kind = "submission" => shut)
    BY <1>1 DEF Record, Persist, At, KindOK
  <2>. QED BY <1>1, <2>1, <2>2, <2>3, HandlerEnds DEF Record, Persist
<1>2. CASE Claimed(c)
  <2>1. request[c].pc = "claimed" /\ request[c].kind = "reconcile"
    BY <1>2 DEF Claimed, At, KindOK
  <2>2. CASE Ends(c, FALSE)
    BY <1>2, <2>1, <2>2, HandlerEnds DEF Claimed, Audit
  <2>3. CASE Goto(c, "find") /\ UNCHANGED replica
    <3>1. KindOK([request[c] EXCEPT !.pc = "find"])
      BY <2>1 DEF KindOK, Call, Owning
    <3>. QED BY <1>2, <2>1, <2>3, <3>1, MoveInv DEF Claimed, Plain, Owning
  <2>. QED BY <1>2, <2>2, <2>3 DEF Claimed
<1>3. CASE Find(c)
  <2>1. request[c].pc = "find" /\ request[c].kind = "reconcile"
    BY <1>3 DEF Find, At, KindOK
  <2>2. CASE broker = "none"
    BY <1>3, <2>1, <2>2, HandlerEnds DEF Find
  <2>3. CASE broker # "none"
    <3>1. Goto(c, "by_id") /\ orders' = broker /\ replica' = replica
      BY <1>3, <2>3 DEF Find
    <3>2. KindOK([request[c] EXCEPT !.pc = "by_id"])
      BY <2>1 DEF KindOK, Call, Owning
    <3>3. orders' \in OrderStatus /\ Grows(orders', broker)
      BY <3>1 DEF Grows
    <3>. QED BY <1>3, <2>1, <3>1, <3>2, <3>3, GoesOn DEF Find, Plain, Owning, GateStaysOff
  <2>. QED BY <2>2, <2>3
<1>. QED BY <1>1, <1>2, <1>3

-----------------------------------------------------------------------------
(* Receipts, the claim and the POST.                                       *)

LEMMA ReceiptReadInv ==
    ASSUME Phase1Inv, NEW c \in Requests, Ready(c) \/ Approved(c)
    PROVE  Phase1Inv'
<1>. USE RowOK1
<1>1. CASE Ready(c)
  <2>. DEFINE doc == row["readiness"].doc
              pc == IF request[c].kind = "execution" THEN "build" ELSE "approved"
              q == [request[c] EXCEPT !.ready = doc, !.pc = pc]
  <2>1. /\ request[c].pc = "ready" /\ request[c].kind \in {"execution", "submission"}
        /\ request[c].readiness # 0 /\ doc.id = request[c].readiness
    BY <1>1 DEF Ready, At, KindOK, receipt
  <2>2. doc \in Document /\ <<doc, "readiness">> \in issued
    BY <2>1 DEF Phase1Inv, ReceiptsOK, Stages
  <2>. HIDE DEF doc
  <2>3. /\ q \in Call /\ q.pc = pc /\ q.ready = doc
        /\ q.kind = request[c].kind /\ q.at = request[c].at /\ q.readiness = request[c].readiness
    BY <2>2 DEF Call, Pcs
  <2>4. Set1(c, q)
    BY <1>1 DEF Ready, doc
  <2>. HIDE DEF q
  <2>5. KindOK(q) /\ LocalsOK(q, issued, broker) /\ q.pc \notin Owning
    BY <2>1, <2>2, <2>3 DEF KindOK, LocalsOK, Owning
  <2>6. UNCHANGED <<Outside, Audit, replica, wire, sent, posts>>
    BY <1>1 DEF Ready
  <2>. QED BY <2>3, <2>4, <2>5, <2>6, QuietStep DEF Audit, GateStaysOff
<1>2. CASE Approved(c)
  <2>. DEFINE doc == row["execution"].doc
              q == [request[c] EXCEPT !.approved = doc, !.pc = "build"]
  <2>1. /\ request[c].pc = "approved" /\ request[c].kind = "submission"
        /\ request[c].execution # 0 /\ doc.id = request[c].execution
    BY <1>2 DEF Approved, At, KindOK, receipt
  <2>2. doc \in Document /\ <<doc, "execution">> \in issued
    BY <2>1 DEF Phase1Inv, ReceiptsOK, Stages
  <2>. HIDE DEF doc
  <2>3. /\ q \in Call /\ q.pc = "build" /\ q.approved = doc
        /\ q.kind = request[c].kind /\ q.at = request[c].at /\ q.execution = request[c].execution
    BY <2>2 DEF Call, Pcs
  <2>4. Set1(c, q)
    BY <1>2 DEF Approved, doc
  <2>. HIDE DEF q
  <2>5. KindOK(q) /\ LocalsOK(q, issued, broker) /\ q.pc \notin Owning
    BY <2>1, <2>2, <2>3 DEF KindOK, LocalsOK, Owning
  <2>6. UNCHANGED <<Outside, Audit, replica, wire, sent, posts>>
    BY <1>2 DEF Approved
  <2>. QED BY <2>3, <2>4, <2>5, <2>6, QuietStep DEF Audit, GateStaysOff
<1>. QED BY <1>1, <1>2

LEMMA BuildInv ==
    ASSUME Phase1Inv, NEW c \in Requests, BuildApproved(c)
    PROVE  Phase1Inv'
<1>. USE RowOK1
<1>. DEFINE old == request[c]
            Built(fresh) == [Idle EXCEPT !.at = old.at, !.kind = old.kind, !.fresh = fresh,
                                 !.pc = IF old.kind = "submission" THEN "claim" ELSE "store"]
<1>1. PICK proposal \in build_deterministic_proposal :
         LET fresh == _build_preflight(c, proposal)
         IN /\ old.kind # "readiness" => same_candidate(old.ready, fresh)
            /\ old.kind = "submission" => same_candidate(old.approved, fresh)
            /\ Set1(c, Built(fresh))
  BY DEF BuildApproved
<1>. DEFINE fresh == _build_preflight(c, proposal)
            symbol == proposal.symbol
            price == proposal.price
            q == Built(fresh)
<1>0. symbol \in Symbols /\ price \in 1..MaxPrice
  BY DEF build_deterministic_proposal
<1>2. /\ old.pc = "build" /\ old.kind # "reconcile" /\ old.at \in Replicas
      /\ old \in Call /\ UNCHANGED <<Outside, Audit, replica, wire, sent, posts>>
  BY DEF BuildApproved, At, KindOK
<1>3. /\ fresh.id = (IF old.kind = "submission" THEN old.execution ELSE 0)
      /\ fresh.readiness = old.readiness /\ fresh.symbol = symbol /\ fresh.price = price
  BY DEF _build_preflight
<1>4. fresh \in Document /\ fresh # Blank
  <2>1. price \in 0..MaxPrice /\ 0 \in 0..MaxReceipts
    BY <1>0, Phase1Constants
  <2>2. fresh \in Document
    BY <1>0, <1>2, <2>1 DEF Document, Call, _build_preflight
  <2>3. Blank.symbol = NoSymbol
    BY DEF Blank
  <2>. QED BY <1>0, <1>3, <2>2, <2>3, Phase1Constants
<1>5. old.kind # "readiness" =>
          fresh.symbol = old.ready.symbol /\ fresh.price <= old.ready.price
  BY <1>1 DEF same_candidate
<1>6. old.kind = "submission" =>
          fresh.symbol = old.approved.symbol /\ fresh.price <= old.approved.price
  BY <1>1 DEF same_candidate
<1>. HIDE DEF fresh
<1>7. /\ q \in Call /\ q.at = old.at /\ q.kind = old.kind /\ q.fresh = fresh
      /\ q.pc = (IF old.kind = "submission" THEN "claim" ELSE "store")
  BY <1>2, <1>4, IdleOK DEF Call, Pcs
<1>8. old.kind = "execution" => HasReady(issued, fresh)
  BY <1>2, <1>3, <1>5 DEF LocalsOK, HasReady
<1>9. old.kind = "submission" => ApprovedTwice(issued, fresh)
  <2>. SUFFICES ASSUME old.kind = "submission" PROVE ApprovedTwice(issued, fresh)
    OBVIOUS
  <2>1. <<old.approved, "execution">> \in issued /\ old.approved.id = old.execution
    BY <1>2 DEF LocalsOK
  <2>2. HasReady(issued, old.approved)
    BY <2>1 DEF Phase1Inv, ReceiptsOK
  <2>. QED BY <1>3, <1>6, <2>1, <2>2 DEF ApprovedTwice
<1>10. Set1(c, q)
  BY <1>1 DEF fresh
<1>. HIDE DEF q
<1>11. KindOK(q) /\ LocalsOK(q, issued, broker) /\ q.pc \notin Owning
  BY <1>2, <1>4, <1>7, <1>8, <1>9 DEF KindOK, LocalsOK, Owning, Call, Stages
<1>. QED BY <1>2, <1>7, <1>10, <1>11, QuietStep DEF Audit, GateStaysOff

LEMMA StoreInv ==
    ASSUME Phase1Inv, NEW c \in Requests, store(c)
    PROVE  Phase1Inv'
<1>. USE RowOK1
<1>. DEFINE kind == request[c].kind
<1>1. PICK id \in 1..MaxReceipts :
         /\ issued' = issued \cup {<<[request[c].fresh EXCEPT !.id = id], kind>>}
         /\ row' = [row EXCEPT ![kind] = [doc |-> [request[c].fresh EXCEPT !.id = id],
                                          live |-> TRUE]]
  BY DEF store
<1>. DEFINE doc == [request[c].fresh EXCEPT !.id = id]
<1>2. request[c].pc = "store" /\ kind \in Stages
  BY DEF store, At, KindOK
<1>3. request[c].fresh \in Document
  BY DEF Call
<1>4. /\ doc \in Document /\ doc.readiness = request[c].fresh.readiness
      /\ doc.symbol = request[c].fresh.symbol /\ doc.price = request[c].fresh.price
  <2>1. id \in 0..MaxReceipts
    BY Phase1Constants
  <2>. QED BY <1>3, <2>1 DEF Document
<1>5. kind = "execution" => HasReady(issued, doc)
  BY <1>2, <1>4 DEF LocalsOK, HasReady
<1>6. issued' = issued \cup {<<doc, kind>>} /\ row' = [row EXCEPT ![kind] = [doc |-> doc, live |-> TRUE]]
  BY <1>1
<1>. HIDE DEF doc, kind
<1>7. UNCHANGED <<Outside, claim, orders, wire, sent, posts>>
  BY DEF store
<1>8. PICK lost \in BOOLEAN : Ends(c, lost /\ Orderer(c))
  BY DEF store
<1>9. Set1(c, Idle) /\ replica' \in [Replicas -> Settings] /\ GateStaysOff'
  BY <1>2, <1>8, EndsOK DEF kind, Stages, Orderer
<1>10. issued \subseteq issued'
  BY <1>6
<1>11. /\ request' \in [Requests -> Call] /\ RequestsOK'
       /\ \A d \in Requests : request'[d] = IF d = c THEN Idle ELSE request[d]
  BY <1>7, <1>9, <1>10, IdleOK, RequestMoves DEF Outside, Grows
<1>12. /\ issued' \in SUBSET (Document \X Stages)
       /\ row' \in [Stages -> [doc: Document, live: BOOLEAN]]
  BY <1>2, <1>4, <1>6 DEF Phase1Inv, Phase1TypeOK
<1>13. Phase1TypeOK'
  BY <1>7, <1>9, <1>11, <1>12 DEF Phase1Inv, Phase1TypeOK, Settings, Outside
<1>14. ReceiptsOK'
  <2>1. ASSUME NEW s \in Stages, row'[s].doc.id # 0 PROVE <<row'[s].doc, s>> \in issued'
    <3>1. CASE s = kind
      <4>1. row'[s].doc = doc
        BY <1>6, <1>2, <3>1
      <4>. QED BY <4>1, <1>6, <3>1
    <3>2. CASE s # kind
      <4>1. row'[s] = row[s]
        BY <1>6, <3>2
      <4>. QED BY <4>1, <2>1, <1>10 DEF Phase1Inv, ReceiptsOK
    <3>. QED BY <3>1, <3>2
  <2>2. ASSUME NEW e \in issued', e[2] = "execution" PROVE HasReady(issued', e[1])
    <3>1. CASE e \in issued
      BY <2>2, <3>1, <1>10, ApprovalsLast DEF Phase1Inv, ReceiptsOK
    <3>2. CASE e = <<doc, kind>>
      BY <2>2, <3>2, <1>5, <1>10, ApprovalsLast
    <3>. QED BY <3>1, <3>2, <1>6
  <2>. QED BY <2>1, <2>2 DEF ReceiptsOK
<1>15. ClaimOK'
  BY <1>7, <1>10, ApprovalsLast DEF Phase1Inv, ClaimOK, Outside
<1>16. OwnersOK'
  BY <1>7, <1>11, IdleOK DEF Phase1Inv, OwnersOK, Owns, Owning
<1>. QED BY <1>9, <1>11, <1>13, <1>14, <1>15, <1>16 DEF Phase1Inv

LEMMA ClaimInv ==
    ASSUME Phase1Inv, NEW c \in Requests, Claim1(c)
    PROVE  Phase1Inv'
<1>. USE RowOK1
<1>1. /\ request[c].pc = "claim" /\ request[c].kind = "submission"
      /\ claim = Blank /\ claim' = request[c].fresh
      /\ UNCHANGED <<Outside, issued, row, orders, wire, sent, posts>>
  BY DEF Claim1, At, Claimable, KindOK
<1>2. request[c].fresh \in Document /\ request[c].fresh # Blank /\ ApprovedTwice(issued, request[c].fresh)
  BY <1>1 DEF LocalsOK, Call
<1>3. posts = 0 /\ sent = {} /\ \A d \in Requests : ~Owns(d)
  BY <1>1 DEF Phase1Inv, ClaimOK, OwnersOK
<1>4. PICK q \in Call :
         /\ Set1(c, q) /\ KindOK(q) /\ LocalsOK(q, issued, broker)
         /\ q.pc \in Owning => q.fresh = request[c].fresh
         /\ replica' \in [Replicas -> Settings] /\ GateStaysOff'
  <2>1. CASE Goto(c, "audit") /\ UNCHANGED replica
    <3>. DEFINE q == [request[c] EXCEPT !.pc = "audit"]
    <3>1. /\ q \in Call /\ q.pc = "audit" /\ q.fresh = request[c].fresh
          /\ q.kind = request[c].kind /\ q.at = request[c].at
      BY DEF Call, Pcs
    <3>2. Set1(c, q)
      BY <2>1 DEF Goto
    <3>. HIDE DEF q
    <3>3. KindOK(q) /\ LocalsOK(q, issued, broker)
      BY <1>1, <3>1 DEF KindOK, LocalsOK, Owning
    <3>. QED BY <2>1, <3>1, <3>2, <3>3 DEF GateStaysOff
  <2>2. CASE Ends(c, TRUE)
    BY <1>1, <2>2, EndsOK, IdleOK DEF Owning
  <2>. QED BY <2>1, <2>2 DEF Claim1
<1>5. /\ request' \in [Requests -> Call] /\ RequestsOK'
      /\ \A d \in Requests : request'[d] = IF d = c THEN q ELSE request[d]
  BY <1>1, <1>4, RequestMoves DEF Outside, Grows
<1>6. Phase1TypeOK'
  BY <1>1, <1>2, <1>4, <1>5 DEF Phase1Inv, Phase1TypeOK, Settings, Outside
<1>7. ReceiptsOK'
  BY <1>1 DEF Phase1Inv, ReceiptsOK
<1>8. ClaimOK'
  BY <1>1, <1>2, <1>3 DEF Phase1Inv, ClaimOK, Outside
<1>9. OwnersOK'
  BY <1>1, <1>2, <1>3, <1>4, <1>5 DEF Phase1Inv, OwnersOK, Owns
<1>. QED BY <1>4, <1>5, <1>6, <1>7, <1>8, <1>9 DEF Phase1Inv

LEMMA PostInv ==
    ASSUME Phase1Inv, NEW c \in Requests, Post(c)
    PROVE  Phase1Inv'
<1>. USE RowOK1
<1>1. /\ request[c].pc = "post" /\ request[c].kind = "submission" /\ Owns(c)
      /\ wire' = TRUE /\ sent' = sent \cup {request[c].fresh} /\ posts' = posts + 1
      /\ Goto(c, "answer") /\ UNCHANGED <<Outside, Audit, replica>>
  BY DEF Post, At, KindOK, Owning, Owns
<1>2. posts = 0 /\ claim # Blank /\ request[c].fresh = claim /\ \A d \in Requests : Owns(d) => d = c
  BY <1>1 DEF Phase1Inv, OwnersOK
<1>3. posts' = 1 /\ sent = {} /\ broker = "none"
  BY <1>1, <1>2 DEF Phase1Inv, ClaimOK
<1>. DEFINE q == [request[c] EXCEPT !.pc = "answer"]
<1>4. q \in Call /\ q.pc = "answer" /\ q.kind = request[c].kind /\ q.at = request[c].at
  BY DEF Call, Pcs
<1>5. Set1(c, q)
  BY <1>1 DEF Goto
<1>. HIDE DEF q
<1>6. KindOK(q) /\ LocalsOK(q, issued, broker) /\ q.pc \notin Owning
  BY <1>1, <1>4 DEF KindOK, LocalsOK, Owning
<1>7. /\ request' \in [Requests -> Call] /\ RequestsOK'
      /\ \A d \in Requests : request'[d] = IF d = c THEN q ELSE request[d]
  BY <1>1, <1>4, <1>5, <1>6, RequestMoves DEF Outside, Audit, Grows
<1>8. Phase1TypeOK' /\ GateStaysOff'
  BY <1>1, <1>2, <1>3, <1>7 DEF Phase1Inv, Phase1TypeOK, Outside, Audit, GateStaysOff
<1>9. ReceiptsOK'
  BY <1>1 DEF Phase1Inv, ReceiptsOK, Audit
<1>10. ClaimOK'
  BY <1>1, <1>2, <1>3 DEF Phase1Inv, ClaimOK, Outside, Audit
<1>11. OwnersOK'
  BY <1>2, <1>6, <1>7 DEF Phase1Inv, OwnersOK, Owns
<1>. QED BY <1>7, <1>8, <1>9, <1>10, <1>11 DEF Phase1Inv

-----------------------------------------------------------------------------
(* What happens around the requests.                                       *)

LEMMA RestartInv ==
    ASSUME Phase1Inv, NEW p \in Replicas, Restart(p)
    PROVE  Phase1Inv'
<1>1. PICK on \in BOOLEAN :
         replica' = [replica EXCEPT ![p] = [configured |-> on, enabled |-> on, attempted |-> FALSE]]
  BY DEF Restart
<1>2. request' = [c \in Requests |-> IF request[c].at = p THEN Idle ELSE request[c]]
  BY DEF Restart
<1>3. UNCHANGED <<sdk, issued, row, claim, orders, broker, wire, sent, posts>>
  BY DEF Restart
<1>4. \A c \in Requests : request'[c] = Idle \/ request'[c] = request[c]
  BY <1>2
<1>5. request' \in [Requests -> Call]
  BY <1>2, IdleOK DEF Phase1Inv, Phase1TypeOK
<1>6. [configured |-> on, enabled |-> on, attempted |-> FALSE] \in Settings
  BY DEF Settings
<1>7. replica' \in [Replicas -> Settings] /\ GateStaysOff'
  BY <1>1, <1>6 DEF Phase1Inv, Phase1TypeOK, GateStaysOff, Settings
<1>8. Phase1TypeOK'
  BY <1>3, <1>5, <1>7 DEF Phase1Inv, Phase1TypeOK, Settings
<1>9. ReceiptsOK' /\ ClaimOK'
  BY <1>3 DEF Phase1Inv, ReceiptsOK, ClaimOK
<1>10. OwnersOK'
  BY <1>3, <1>4, IdleOK DEF Phase1Inv, OwnersOK, Owns, Owning
<1>11. RequestsOK'
  BY <1>3, <1>4, IdleOK DEF Phase1Inv, RequestsOK
<1>. QED BY <1>7, <1>8, <1>9, <1>10, <1>11 DEF Phase1Inv

LEMMA LapseInv ==
    ASSUME Phase1Inv, NEW s \in Stages, Lapse(s)
    PROVE  Phase1Inv'
<1>1. row' = [row EXCEPT ![s].live = FALSE]
  BY DEF Lapse
<1>2. UNCHANGED <<replica, sdk, issued, claim, orders, broker, wire, sent, posts, request>>
  BY DEF Lapse
<1>3. row \in [Stages -> [doc: Document, live: BOOLEAN]]
  BY DEF Phase1Inv, Phase1TypeOK
<1>4. /\ row' \in [Stages -> [doc: Document, live: BOOLEAN]]
      /\ \A t \in Stages : row'[t].doc = row[t].doc
  BY <1>1, <1>3
<1>5. Phase1TypeOK' /\ GateStaysOff'
  BY <1>2, <1>4 DEF Phase1Inv, Phase1TypeOK, GateStaysOff
<1>6. ReceiptsOK'
  BY <1>2, <1>4 DEF Phase1Inv, ReceiptsOK
<1>7. ClaimOK' /\ OwnersOK' /\ RequestsOK'
  BY <1>2 DEF Phase1Inv, ClaimOK, OwnersOK, Owns, RequestsOK
<1>. QED BY <1>5, <1>6, <1>7 DEF Phase1Inv

LEMMA BrokerInv == ASSUME Phase1Inv, BrokerStep PROVE Phase1Inv'
<1>1. UNCHANGED <<replica, sdk, issued, row, claim, orders, sent, posts, request>>
  BY DEF BrokerStep
<1>2. wire' \in BOOLEAN /\ broker' \in OrderStatus /\ Grows(broker, broker')
  BY DEF BrokerStep, Phase1Inv, Phase1TypeOK, ClaimOK, OrderStatus, Grows
<1>3. Phase1TypeOK' /\ GateStaysOff' /\ ReceiptsOK'
  BY <1>1, <1>2 DEF Phase1Inv, Phase1TypeOK, GateStaysOff, ReceiptsOK
<1>4. posts # 0 /\ (wire' => broker' = "none")
  BY DEF BrokerStep, Phase1Inv, ClaimOK
<1>5. ClaimOK'
  BY <1>1, <1>2, <1>4 DEF Phase1Inv, ClaimOK, Grows
<1>6. OwnersOK'
  BY <1>1 DEF Phase1Inv, OwnersOK, Owns
<1>7. RequestsOK'
  BY <1>1, <1>2, LocalsLast DEF Phase1Inv, RequestsOK
<1>. QED BY <1>3, <1>5, <1>6, <1>7 DEF Phase1Inv

LEMMA Phase1StepInv == Phase1Inv /\ [Next1]_vars1 => Phase1Inv'
<1>. SUFFICES ASSUME Phase1Inv, [Next1]_vars1 PROVE Phase1Inv'
  OBVIOUS
<1>1. CASE BrokerStep
  BY <1>1, BrokerInv
<1>2. CASE \E p \in Replicas : Restart(p)
  BY <1>2, RestartInv
<1>3. CASE \E s \in Stages : Lapse(s)
  BY <1>3, LapseInv
<1>4. ASSUME NEW c \in Requests, Handler(c) PROVE Phase1Inv'
  BY <1>4, EntryInv, WalkInv, BrokerAnswersInv, RecordsInv, ReceiptReadInv, BuildInv,
     StoreInv, ClaimInv, PostInv, RaiseInv DEF Handler
<1>5. CASE UNCHANGED vars1
  <2>1. Phase1TypeOK' /\ GateStaysOff' /\ ReceiptsOK'
    BY <1>5 DEF vars1, Phase1Inv, Phase1TypeOK, GateStaysOff, ReceiptsOK
  <2>2. ClaimOK' /\ OwnersOK' /\ RequestsOK'
    BY <1>5 DEF vars1, Phase1Inv, ClaimOK, OwnersOK, Owns, RequestsOK
  <2>. QED BY <2>1, <2>2 DEF Phase1Inv
<1>. QED BY <1>1, <1>2, <1>3, <1>4, <1>5 DEF Next1

\* The inductive invariant holds in every reachable state.
THEOREM Phase1Invariant == Spec1 => []Phase1Inv
<1>. QED BY Phase1InitInv, Phase1StepInv, PTL DEF Spec1

\* The variables keep their types: never a second POST.
THEOREM Phase1Types == Spec1 => []Phase1TypeOK
<1>1. Phase1Inv => Phase1TypeOK
  BY DEF Phase1Inv
<1>. QED BY <1>1, Phase1Invariant, PTL

\* Whatever overlaps, restarts, times out or arrives late: at most one POST leaves, it
\* is of the claimed order, and the recorded status is one the broker has reached.
THEOREM OnePost == Spec1 => []OneOrder
<1>1. Phase1Inv => OneOrder
  BY DEF Phase1Inv, Phase1TypeOK, ClaimOK, OneOrder
<1>. QED BY <1>1, Phase1Invariant, PTL

\* The order posted was approved under both receipts, for the same contract and at a
\* price that never rose.
THEOREM PostedAsApproved == Spec1 => []SentAsApproved
<1>1. Phase1Inv => SentAsApproved
  <2>. SUFFICES ASSUME Phase1Inv, NEW doc \in sent
                PROVE  \E e, r \in issued :
                         /\ e[2] = "execution" /\ e[1].id = doc.id /\ e[1].readiness = r[1].id
                         /\ r[2] = "readiness"
                         /\ doc.symbol = e[1].symbol /\ e[1].symbol = r[1].symbol
                         /\ doc.price <= e[1].price /\ e[1].price <= r[1].price
    BY DEF SentAsApproved
  <2>1. doc = claim /\ posts # 0
    BY DEF Phase1Inv, ClaimOK
  <2>2. ApprovedTwice(issued, doc)
    BY <2>1 DEF Phase1Inv, ClaimOK
  <2>. QED BY <2>2 DEF ApprovedTwice, HasReady
<1>. QED BY <1>1, Phase1Invariant, PTL

\* In every process a submission that ended, in whatever way, has left the gate off.
THEOREM GateOff == Spec1 => []GateStaysOff
<1>1. Phase1Inv => GateStaysOff
  BY DEF Phase1Inv
<1>. QED BY <1>1, Phase1Invariant, PTL
=============================================================================

--------------------------- MODULE CycleLease_proofs ---------------------------
(***************************************************************************)
(* FencedSave holds for every number of owners, cycles and attempts and    *)
(* every duration: LeaseInv is inductive.                                  *)
(***************************************************************************)
EXTENDS CycleLease, TLAPS

LEMMA ElapseBound ==
    ASSUME NEW n \in Nat, NEW t \in 0..n
    PROVE  Elapse(t) \in 0..n
BY DEF Elapse

LEMMA Bounds ==
    /\ 0 \in 0..LeaseTTL /\ LeaseTTL \in 0..LeaseTTL
    /\ 0 \in 0..Cooldown /\ Cooldown \in 0..Cooldown
BY LeaseConstants

LEMMA LeaseInitInv == LeaseInit => LeaseInv
BY LeaseConstants DEF LeaseInit, LeaseInv, LeaseTypeOK, Lease, OwnerIsLatest, FencedSave, Saved

\* A grant moves owner, cycle and the grant's history together, and only to a cycle
\* that is not recorded.
LEMMA GrantInv ==
    ASSUME LeaseInv, NEW w \in Owners, NEW c \in Cycles, Grant(w, c)
    PROVE  LeaseInv'
<1>1. LeaseTypeOK'
  <2>1. AttemptOn(c) \in [Cycles -> 0..MaxAttempts]
    BY LeaseConstants DEF LeaseInv, LeaseTypeOK, Lease, Grant, GrantOpen, AttemptOn
  <2>2. lease' \in Lease
    BY <2>1, Bounds DEF LeaseInv, LeaseTypeOK, Lease, Grant
  <2>. QED BY <2>2 DEF LeaseInv, LeaseTypeOK, Grant
<1>2. OwnerIsLatest'
  BY DEF LeaseInv, LeaseTypeOK, Lease, Grant, OwnerIsLatest
<1>3. FencedSave'
  BY DEF LeaseInv, LeaseTypeOK, Grant, GrantOpen, FencedSave, Saved
<1>. QED BY <1>1, <1>2, <1>3 DEF LeaseInv

\* Clearing the row's owner keeps the invariant, whatever is recorded for the cycle the
\* owner held, as long as it is recorded as the owner's.
LEMMA FreedInv ==
    ASSUME LeaseInv, lease' = FreedLease, granted' = granted
    PROVE  /\ lease' \in Lease
           /\ OwnerIsLatest'
<1>1. lease \in Lease
  BY DEF LeaseInv, LeaseTypeOK
<1>2. FreedLease \in Lease
  BY <1>1, Bounds DEF Lease, FreedLease
<1>3. FreedLease.owner = NoOwner
  BY <1>1 DEF Lease, FreedLease
<1>. QED BY <1>2, <1>3 DEF OwnerIsLatest

LEMMA ReleaseCompletedInv ==
    ASSUME LeaseInv, NEW w \in Owners, NEW c \in Cycles, ReleaseCompleted(w, c)
    PROVE  LeaseInv'
<1>1. granted[c] = w
  BY LeaseConstants DEF LeaseInv, OwnerIsLatest, ReleaseCompleted, Releasable
<1>2. LeaseTypeOK'
  BY FreedInv DEF LeaseInv, LeaseTypeOK, ReleaseCompleted, SaveCycle
<1>3. OwnerIsLatest'
  BY FreedInv DEF ReleaseCompleted
<1>4. FencedSave'
  BY <1>1 DEF LeaseInv, LeaseTypeOK, ReleaseCompleted, SaveCycle, FencedSave, Saved
<1>. QED BY <1>2, <1>3, <1>4 DEF LeaseInv

LEMMA ReleaseFailedInv ==
    ASSUME LeaseInv, NEW w \in Owners, ReleaseFailed(w)
    PROVE  LeaseInv'
BY FreedInv DEF LeaseInv, LeaseTypeOK, ReleaseFailed, FencedSave, Saved

LEMMA LeaseTickInv ==
    ASSUME LeaseInv, LeaseTick
    PROVE  LeaseInv'
<1>1. lease' \in Lease
  BY ElapseBound, LeaseConstants DEF LeaseInv, LeaseTypeOK, Lease, LeaseTick
<1>2. lease'.owner = lease.owner /\ lease'.cycle = lease.cycle
  BY DEF LeaseInv, LeaseTypeOK, Lease, LeaseTick
<1>. QED
  BY <1>1, <1>2 DEF LeaseInv, LeaseTypeOK, LeaseTick, OwnerIsLatest, FencedSave, Saved

LEMMA LeaseNextInv == LeaseInv /\ [LeaseNext]_leaseVars => LeaseInv'
<1>. SUFFICES ASSUME LeaseInv, [LeaseNext]_leaseVars
             PROVE  LeaseInv'
  OBVIOUS
<1>1. ASSUME NEW w \in Owners, NEW c \in Cycles, Grant(w, c) \/ ReleaseCompleted(w, c)
      PROVE  LeaseInv'
  BY <1>1, GrantInv, ReleaseCompletedInv
<1>2. ASSUME NEW w \in Owners, ReleaseFailed(w)
      PROVE  LeaseInv'
  BY <1>2, ReleaseFailedInv
<1>3. CASE LeaseTick
  BY <1>3, LeaseTickInv
<1>4. CASE UNCHANGED leaseVars
  BY <1>4 DEF leaseVars, LeaseInv, LeaseTypeOK, OwnerIsLatest, FencedSave, Saved
<1>. QED BY <1>1, <1>2, <1>3, <1>4 DEF LeaseNext

\* Every reachable lease row, record and grant has its type.
THEOREM LeaseTypeCorrect == LeaseSpec => []LeaseTypeOK
<1>1. LeaseInv => LeaseTypeOK
  BY DEF LeaseInv
<1>. QED BY <1>1, LeaseInitInv, LeaseNextInv, PTL DEF LeaseSpec

\* phase2_release_lease records a cycle only for the worker of its latest attempt.
THEOREM LeaseFencesSave == LeaseSpec => []FencedSave
<1>1. LeaseInv => FencedSave
  BY DEF LeaseInv
<1>. QED BY <1>1, LeaseInitInv, LeaseNextInv, PTL DEF LeaseSpec
=============================================================================

------------------------------ MODULE CycleLease ------------------------------
(***************************************************************************)
(* The singleton dispatcher lease of database/migrations/                  *)
(* 004_phase2_cycle_lease.sql, with the insert of a completed cycle that   *)
(* its release performs (003_phase2_dry_run.sql).  Each RPC locks the one  *)
(* lease row FOR UPDATE, so each is one atomic action here.                *)
(*                                                                         *)
(* Time.  A timestamp column is modelled by the number of ticks left until *)
(* it passes, 0 once it has: `expires_at > stamp` is `ttl > 0`.  A tick    *)
(* stands for some number of seconds; only the order in which deadlines    *)
(* pass matters to the properties.                                         *)
(***************************************************************************)
EXTENDS Naturals

CONSTANTS
    Owners,       \* owner_id values: every acquisition in the code draws a fresh uuid4
    Cycles,       \* cycle ids
    NoOwner,      \* the NULL of owner_id
    NoCycle,      \* the NULL of cycle_id
    LeaseTTL,     \* lease_seconds
    Cooldown,     \* the 60 seconds of next_allowed_at
    MaxAttempts   \* the two attempts a cycle may have

ASSUME LeaseConstants ==
    /\ NoOwner \notin Owners
    /\ NoCycle \notin Cycles
    /\ LeaseTTL \in Nat \ {0}
    /\ Cooldown \in Nat
    /\ MaxAttempts \in Nat

VARIABLES
    lease,     \* the row of phase2_cycle_lease
    savedBy,   \* autonomous_cycles: who recorded a cycle, NoOwner while no row exists
    granted    \* history: the owner of the latest grant of each cycle

leaseVars == <<lease, savedBy, granted>>

\* One tick off a countdown.
Elapse(t) == IF t > 0 THEN t - 1 ELSE 0

Lease == [owner: Owners \cup {NoOwner}, cycle: Cycles \cup {NoCycle},
          ttl: 0..LeaseTTL, rest: 0..Cooldown, attempts: [Cycles -> 0..MaxAttempts]]

LeaseTypeOK ==
    /\ lease \in Lease
    /\ savedBy \in [Cycles -> Owners \cup {NoOwner}]
    /\ granted \in [Cycles -> Owners \cup {NoOwner}]

Saved == {c \in Cycles : savedBy[c] # NoOwner}

LeaseLive == lease.ttl > 0
LeasedTo(c) == LeaseLive /\ lease.cycle = c
HoldsLease(w, c) == LeasedTo(c) /\ lease.owner = w

-----------------------------------------------------------------------------
\* The lease as the migration inserts it: never held, no attempt made.
LeaseInit ==
    /\ lease = [owner |-> NoOwner, cycle |-> NoCycle, ttl |-> 0, rest |-> 0,
                attempts |-> [c \in Cycles |-> 0]]
    /\ savedBy = [c \in Cycles |-> NoOwner]
    /\ granted = [c \in Cycles |-> NoOwner]

\* When phase2_acquire_lease hands out a new lease on c.
\* Mutant: the retry ceiling is forgotten.
GrantOpenUncapped(c) == c \notin Saved /\ ~LeaseLive /\ lease.rest = 0
GrantOpen(c) ==
    /\ c \notin Saved
    /\ ~LeaseLive
    /\ lease.rest = 0
    /\ lease.attempts[c] < MaxAttempts

AttemptOn(c) == [lease.attempts EXCEPT ![c] = @ + 1]

\* phase2_acquire_lease returning true for a new lease.  A repeated call of the
\* owner that still holds c also returns true, and changes nothing.
Grant(w, c) ==
    /\ GrantOpen(c)
    /\ lease' = [lease EXCEPT !.owner = w, !.cycle = c, !.ttl = LeaseTTL,
                              !.rest = Cooldown, !.attempts = AttemptOn(c)]
    /\ granted' = [granted EXCEPT ![c] = w]
    /\ UNCHANGED savedBy

\* phase2_release_lease returns false to everybody else.
\* Mutant: the expired lease is still honoured, and so is anybody's.
ReleasableToAny(w) == lease.owner # NoOwner
Releasable(w) == LeaseLive /\ lease.owner = w

\* phase2_save_cycle: inserted once, a conflict on the id does nothing.
SaveCycle(w, c) ==
    savedBy' = IF c \in Saved THEN savedBy ELSE [savedBy EXCEPT ![c] = w]

\* Mutant: a release forgets to push next_allowed_at.
FreedLeaseNoRest == [lease EXCEPT !.owner = NoOwner, !.ttl = 0]
\* greatest(next_allowed_at, stamp + 60s) is stamp + 60s: no deadline is later.
FreedLease == [lease EXCEPT !.owner = NoOwner, !.ttl = 0, !.rest = Cooldown]

\* COMPLETED carries the document of cycle c, which must be the leased one.
ReleaseCompleted(w, c) ==
    /\ Releasable(w)
    /\ c = lease.cycle
    /\ SaveCycle(w, c)
    /\ lease' = FreedLease
    /\ UNCHANGED granted

\* FAILED and CANCELED carry no document.
ReleaseFailed(w) ==
    /\ Releasable(w)
    /\ lease' = FreedLease
    /\ UNCHANGED <<savedBy, granted>>

LeaseTick ==
    /\ lease' = [lease EXCEPT !.ttl = Elapse(@), !.rest = Elapse(@)]
    /\ UNCHANGED <<savedBy, granted>>

-----------------------------------------------------------------------------
\* Any client calling any RPC in any order: what the SQL promises on its own.
LeaseNext ==
    \/ \E w \in Owners, c \in Cycles : Grant(w, c) \/ ReleaseCompleted(w, c)
    \/ \E w \in Owners : ReleaseFailed(w)
    \/ LeaseTick

LeaseSpec == LeaseInit /\ [][LeaseNext]_leaseVars

\* A recorded cycle is the work of the latest attempt granted on it: a worker that
\* lost its lease cannot record its stale result over, before or after that of
\* its successor, and a recorded cycle is never handed out again
\* (release_lease: "stale worker cannot complete cycle", repository.py:30).
FencedSave == \A c \in Saved : savedBy[c] = granted[c]

\* What makes FencedSave inductive: the row's owner is the latest grantee.
OwnerIsLatest == lease.owner # NoOwner =>
    /\ lease.cycle \in Cycles
    /\ granted[lease.cycle] = lease.owner

LeaseInv == LeaseTypeOK /\ OwnerIsLatest /\ FencedSave
=============================================================================

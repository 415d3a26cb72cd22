------------------------------- MODULE TtlSweep -------------------------------
(***************************************************************************)
(* The TTL sweep (gwk-kernel ttl_sweep.rs): on its own clock the kernel    *)
(* expires leases whose holder stopped heartbeating and moves the attempts *)
(* nobody proves alive to `unknown'.                                       *)
(*                                                                         *)
(* Every read and every submission of a pass is a step of its own: clients *)
(* heartbeat, release and move attempts in between, a submission may be    *)
(* refused, and a failed query or a crash ends the pass where it is.       *)
(* Submissions are compare-and-swaps on the row's version.                 *)
(*                                                                         *)
(* Time is kept relative so that it needs no bound: a lease's `ttl' is the *)
(* ticks left of it, an attempt's `age' the ticks since its last event.    *)
(***************************************************************************)
EXTENDS Fsm, Integers, FiniteSets

CONSTANTS
    Leases, Attempts,   \* Attempts are numbers: the stale arm reads them in order
    NoLease,            \* worktree_lease_id IS NULL
    TTL,                \* ticks a lease is given
    STALE_AFTER,        \* ticks of silence
    STALE_SWEEP_BATCH,
    Environments,       \* how much the holders write, one per behaviour
    MaxFaults           \* bound: refused submissions, failed queries and crashes

\* What the constants are.
SweepAssumption ==
    /\ Attempts \subseteq Nat /\ NoLease \notin Leases
    /\ TTL \in Nat \ {0} /\ STALE_AFTER \in Nat \ {0} /\ STALE_SWEEP_BATCH \in Nat \ {0}
    /\ Environments \subseteq [renewals : Nat, moves : [Attempts -> Nat]] /\ MaxFaults \in Nat

NoTtl == -1

VARIABLES
    lease,    \* gwk.lease
    attempt,  \* gwk.attempt
    sweep,    \* the pass in progress: where it is and the rows it has read
    faults,
    env       \* the environment of the behaviour, never changed

vars == <<lease, attempt, sweep, faults>>

MaxRenewals == env.renewals   \* bound: holders stop writing a lease at this version
MaxMoves == env.moves         \* bound: and each attempt at its own

Idle == [pc |-> "idle", leases |-> {}, of |-> NoLease, attempts |-> {}]

Init ==
    /\ env \in Environments
    /\ lease = [l \in Leases |-> [state |-> "absent", version |-> 0, ttl |-> NoTtl]]
    /\ attempt = [a \in Attempts |->
                    [state |-> "absent", version |-> 0, age |-> 0, lease |-> NoLease]]
    /\ sweep = Idle
    /\ faults = 0

\* The states with an edge to unknown, and those whose silence means something.
uncertain_states == {s \in {e[1] : e \in AttemptEdges} : can_transition("attempt", s, "unknown")}
stale_state_names == uncertain_states \ {"blocked"}
-----------------------------------------------------------------------------
(***************************************************************************)
(* The holders.                                                            *)
(***************************************************************************)
AcquireLease(l) ==
    /\ lease[l].state = "absent"
    /\ \E ttl \in {NoTtl, TTL} :
        lease' = [lease EXCEPT ![l] = [state |-> "held", version |-> 1, ttl |-> ttl]]
    /\ UNCHANGED <<attempt, sweep, faults>>

\* Renewing asks for the row's version and nothing else; expires_at is optional.
RenewLease(l) ==
    /\ lease[l].version \in 1 .. MaxRenewals - 1
    /\ \E ttl \in {lease[l].ttl, TTL} :
        lease' = [lease EXCEPT ![l].version = @ + 1, ![l].ttl = ttl]
    /\ UNCHANGED <<attempt, sweep, faults>>

ReleaseLease(l) ==
    /\ lease[l].version \in 1 .. MaxRenewals - 1
    /\ lease' = [lease EXCEPT ![l].version = @ + 1, ![l].state = "released"]
    /\ UNCHANGED <<attempt, sweep, faults>>

CreateAttempt(a) ==
    /\ attempt[a].state = "absent"
    /\ \E l \in {k \in Leases : lease[k].state # "absent"} \cup {NoLease} :
        attempt' = [attempt EXCEPT ![a] =
                      [state |-> "queued", version |-> 1, age |-> 0, lease |-> l]]
    /\ UNCHANGED <<lease, sweep, faults>>

\* The engine, or the liveness producer with its receipt, moves an attempt.
TransitionAttempt(a) ==
    /\ attempt[a].version \in 1 .. MaxMoves[a] - 1
    /\ \E to \in {e[2] : e \in AttemptEdges}, kind \in {"engine", LIVENESS_PRODUCER_KIND} :
        /\ apply("attempt", attempt[a], to, attempt[a].version, [kind |-> kind],
                 kind = LIVENESS_PRODUCER_KIND, MaxMoves[a])
        /\ attempt' = [attempt EXCEPT ![a].state = to, ![a].version = @ + 1, ![a].age = 0]
    /\ UNCHANGED <<lease, sweep, faults>>

\* A fact that moves no state still counts as a sign of life.
RecordRound(a) ==
    /\ attempt[a].version \in 1 .. MaxMoves[a] - 1
    /\ attempt' = [attempt EXCEPT ![a].version = @ + 1, ![a].age = 0]
    /\ UNCHANGED <<lease, sweep, faults>>

Tick ==
    /\ lease' = [l \in Leases |-> [lease[l] EXCEPT !.ttl = IF @ > 0 THEN @ - 1 ELSE @]]
    /\ attempt' = [a \in Attempts |->
                    [attempt[a] EXCEPT !.age = IF @ < STALE_AFTER THEN @ + 1 ELSE @]]
    /\ UNCHANGED <<sweep, faults>>
-----------------------------------------------------------------------------
(***************************************************************************)
(* The pass.                                                               *)
(***************************************************************************)
\* sweep_once_with: the leases whose TTL elapsed, with the versions read.
ReadExpired ==
    /\ sweep.pc = "idle"
    /\ sweep' = [Idle EXCEPT !.pc = "leases",
                   !.leases = {<<l, lease[l].version>> :
                                l \in {k \in Leases : lease[k].state = "held" /\ lease[k].ttl = 0}}]
    /\ UNCHANGED <<lease, attempt, faults>>

\* ExpireLease: applied, its attempts are next; raced, the lease is left alone.
ExpireLease(r) ==
    /\ sweep.pc = "leases" /\ r \in sweep.leases
    /\ IF lease[r[1]].version = r[2]
       THEN /\ lease' = [lease EXCEPT ![r[1]].version = @ + 1, ![r[1]].state = "expired"]
            /\ sweep' = [sweep EXCEPT !.pc = "fetch", !.leases = @ \ {r}, !.of = r[1]]
       ELSE /\ UNCHANGED lease
            /\ sweep' = [sweep EXCEPT !.leases = @ \ {r}]
    /\ UNCHANGED <<attempt, faults>>

sweep_dead_attempts ==
    /\ sweep.pc = "fetch"
    /\ sweep' = [sweep EXCEPT !.pc = "dead",
                   !.attempts = {<<a, attempt[a].version>> :
                      a \in {b \in Attempts : attempt[b].lease = sweep.of
                                                /\ attempt[b].state \in uncertain_states}}]
    /\ UNCHANGED <<lease, attempt, faults>>

\* A live lease is held and has a TTL that the lease arm watches.
LiveLease(a) ==
    /\ attempt[a].lease \in Leases
    /\ lease[attempt[a].lease].state = "held" /\ lease[attempt[a].lease].ttl # NoTtl

\* Mutant: a held lease without a TTL counts as proof of life.
StaleUnlessHeld ==
    {a \in Attempts :
        /\ attempt[a].state \in stale_state_names /\ attempt[a].age = STALE_AFTER
        /\ ~(attempt[a].lease \in Leases /\ lease[attempt[a].lease].state = "held")}

StaleAttempts ==
    {a \in Attempts :
        /\ attempt[a].state \in stale_state_names /\ attempt[a].age = STALE_AFTER
        /\ ~LiveLease(a)}

\* ORDER BY id LIMIT batch.
sweep_stale_attempts ==
    LET stale == StaleAttempts
        batch == {a \in stale : Cardinality({b \in stale : b < a}) < STALE_SWEEP_BATCH}
    IN
    /\ sweep.pc = "leases" /\ sweep.leases = {}
    /\ sweep' = [sweep EXCEPT !.pc = "stale", !.of = NoLease,
                   !.attempts = {<<a, attempt[a].version>> : a \in batch}]
    /\ UNCHANGED <<lease, attempt, faults>>

\* Mutant: the version read is not compared.
BuryUnchecked(r) ==
    /\ sweep.pc \in {"dead", "stale"} /\ r \in sweep.attempts
    /\ attempt' = IF can_transition("attempt", attempt[r[1]].state, "unknown")
                  THEN [attempt EXCEPT ![r[1]].state = "unknown", ![r[1]].version = @ + 1,
                                       ![r[1]].age = 0]
                  ELSE attempt
    /\ sweep' = [sweep EXCEPT !.attempts = @ \ {r}]
    /\ UNCHANGED <<lease, faults>>

\* TransitionAttempt to unknown, by the actor kernel, at the version read.
Bury(r) ==
    /\ sweep.pc \in {"dead", "stale"} /\ r \in sweep.attempts
    /\ attempt' = IF apply("attempt", attempt[r[1]], "unknown", r[2], [kind |-> "kernel"],
                           FALSE, MaxMoves[r[1]] + 1)
                  THEN [attempt EXCEPT ![r[1]].state = "unknown", ![r[1]].version = @ + 1,
                                       ![r[1]].age = 0]
                  ELSE attempt
    /\ sweep' = [sweep EXCEPT !.attempts = @ \ {r}]
    /\ UNCHANGED <<lease, faults>>

\* An arm that is through: the next lease, or the end of the pass.
ArmDone ==
    /\ sweep.pc \in {"dead", "stale"} /\ sweep.attempts = {}
    /\ sweep' = IF sweep.pc = "dead" THEN [sweep EXCEPT !.pc = "leases", !.of = NoLease] ELSE Idle
    /\ UNCHANGED <<lease, attempt, faults>>

\* A submission is refused for another reason than its version: the row is skipped.
SubmitRefused ==
    /\ faults < MaxFaults /\ faults' = faults + 1
    /\ \/ \E r \in sweep.leases :
            sweep.pc = "leases" /\ sweep' = [sweep EXCEPT !.leases = @ \ {r}]
       \/ \E r \in sweep.attempts : sweep' = [sweep EXCEPT !.attempts = @ \ {r}]
    /\ UNCHANGED <<lease, attempt>>

\* A query fails, or the daemon dies and starts again: the pass is lost.
PassLost ==
    /\ faults < MaxFaults /\ faults' = faults + 1
    /\ sweep.pc # "idle" /\ sweep' = Idle
    /\ UNCHANGED <<lease, attempt>>

Holders ==
    \/ \E l \in Leases : AcquireLease(l) \/ RenewLease(l) \/ ReleaseLease(l)
    \/ \E a \in Attempts : CreateAttempt(a) \/ TransitionAttempt(a) \/ RecordRound(a)

run ==
    \/ ReadExpired \/ sweep_dead_attempts \/ sweep_stale_attempts \/ ArmDone
    \/ \E r \in sweep.leases : ExpireLease(r)
    \/ \E r \in sweep.attempts : Bury(r)

Next == Holders \/ Tick \/ run \/ SubmitRefused \/ PassLost

\* Time passes, and the loop comes back after every interval and every failure.
Fairness == WF_vars(Tick) /\ WF_vars(run)

Spec == Init /\ [][Next /\ UNCHANGED env]_<<vars, env>> /\ Fairness
-----------------------------------------------------------------------------
\* A heartbeat or a move between the sweep's read and its write wins: the sweep
\* expires a lease only while it is held and its TTL is over, buries an attempt
\* in the lease arm only when its lease is not held any more, and in the stale
\* arm only one that is not blocked and has been silent for STALE_AFTER at that
\* moment.
ActsOnEvidence ==
    [][sweep' # sweep =>
        /\ \A l \in Leases : lease[l].state # "expired" /\ lease'[l].state = "expired"
            => lease[l].state = "held" /\ lease[l].ttl = 0
        /\ \A a \in Attempts : attempt[a].state # "unknown" /\ attempt'[a].state = "unknown"
            => \/ sweep.pc = "dead" /\ lease[attempt[a].lease].state # "held"
               \/ /\ sweep.pc = "stale" /\ attempt[a].state # "blocked"
                  /\ attempt[a].age = STALE_AFTER]_vars

\* An attempt in a state whose silence means something is not left there by a
\* holder that is gone, leases that never expire, lost passes and full batches
\* notwithstanding.
Buried(a) == attempt[a].state \notin stale_state_names
SilentAttemptsBuried == \A a \in Attempts : []<>Buried(a)
=============================================================================

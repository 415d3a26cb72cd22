---------------------------- MODULE MCEventStore ----------------------------
(***************************************************************************)
(* Two small instances of EventStore in one specification; "mode" is which *)
(* of them a behaviour is of.  One process that restarts and a paging      *)
(* reader over batches that retry, race for a version, reuse a key and are *)
(* malformed; or two processes that take over from each other, with fence  *)
(* tokens, over one request that is retried.                               *)
(***************************************************************************)
EXTENDS EventStore

CONSTANTS k1, k2, t1, t2, r1, p1, p2, a1, a2, x, bad, i1, i2

VARIABLE mode

Ev(p, a, v, i, b) == [project |-> p, aggregate |-> a, version |-> v, key |-> i, body |-> b]
Batch(n, evs) == [expected |-> n, events |-> evs]
Creation == Batch(0, <<Ev(p1, a1, 1, i1, x)>>)

\* Create an aggregate, extend it by two, race the creation under another key,
\* reuse a key on another aggregate and from another project, and be malformed.
MCBatches ==
    {Creation,
     Batch(0, <<Ev(p2, a1, 1, i1, x)>>),
     Batch(1, <<Ev(p1, a1, 2, i2, x), Ev(p1, a1, 3, NoKey, x)>>),
     Batch(0, <<Ev(p1, a2, 1, i1, x)>>),
     Batch(0, <<Ev(p1, a1, 1, i2, bad)>>)}

MCInit == mode \in {"batches", "takeover"} /\ Init

\* Bounds: what a behaviour of each mode leaves out.
Within ==
    IF mode = "batches"
    THEN /\ kernel'[k2].life = "down" /\ writer'.fence = 0
         /\ \A t \in Tasks : task'[t].fence = 0
    ELSE /\ UNCHANGED cursor
         /\ \A t \in Tasks : task'[t].batch \in {NoBatch, Creation}

MCNext == Next /\ Within /\ UNCHANGED mode

\* The fairness of EventStore, in the takeovers.
Fair(A) == mode = "takeover" /\ A
MCFairness ==
    /\ \A t \in Tasks :
        /\ SF_vars(Fair(lock_writer(t) \/ Superseded(t)))
        /\ WF_vars(Fair(append_locked(t) \/ ReplayLocked(t) \/ RefuseLocked(t)))
        /\ WF_vars(Fair(Commit(t) \/ CommitAnswerLost(t)))
    /\ \A k \in Kernels :
        /\ WF_vars(Fair(cancelled(k)))
        /\ WF_vars(Fair(kernel[k].life = "cancelled" /\ Exit(k)))

MCSpec == MCInit /\ [][MCNext]_<<vars, mode>> /\ MCFairness

\* AppendAnswered and LostLockStops, for the takeovers: no append stays open
\* for good (the two are alike, so one stands for both), and no process stays
\* serving for good after it lost its lock.
TakeoverEnds ==
    /\ []<>(mode = "takeover" => task[t1].phase = "idle")
    /\ []<>(mode = "takeover" => kernel[k1].life \notin {"open", "cancelled"} \/ session = k1)
=============================================================================

------------------------------- MODULE EventLog -------------------------------
(***************************************************************************)
(* What the EventStore port (gwk-domain port.rs) promises of any backend:  *)
(* an append-only, commit-ordered log of one-aggregate batches, one        *)
(* current fence token, and reads that hand out the log in order.          *)
(***************************************************************************)
EXTENDS Integers

CONSTANT Readers

VARIABLES
    log,     \* the committed events
    token,   \* the current fence token, 0 before the first grant
    cursor,  \* per reader: the sequence it reads after
    seen     \* per reader: what it was handed

logVars == <<log, token, cursor, seen>>

LogInit ==
    /\ log = {}
    /\ token = 0
    /\ cursor = [r \in Readers |-> 0]
    /\ seen = [r \in Readers |-> {}]

Top(a, v) ==
    /\ \A e \in log : e.env.aggregate = a => e.env.version <= v
    /\ v = 0 \/ \E e \in log : e.env.aggregate = a /\ e.env.version = v

\* append: a whole batch of one aggregate, contiguous from its current version,
\* sequenced after everything committed, under the current token.
Append ==
    LET new == log' \ log IN
    /\ log \subseteq log'
    /\ \A e \in new :
        /\ \A f \in log : f.seq < e.seq
        /\ token # 0 => e.fence = token
        /\ \A f \in new :
            /\ f.env.aggregate = e.env.aggregate
            /\ f.seq - e.seq = f.env.version - e.env.version
            /\ f.seq = e.seq => f = e
    /\ \E e \in new : Top(e.env.aggregate, e.env.version - 1)
    /\ UNCHANGED <<token, cursor, seen>>

\* grant_fence: strictly greater than every earlier token, which it invalidates.
GrantFence ==
    /\ token' > token
    /\ UNCHANGED <<log, cursor, seen>>

\* read_from: the cursor moves on to an event, and the reader has been handed
\* every event up to it.
Read(r) ==
    /\ \E e \in log : e.seq > cursor[r] /\ cursor' = [cursor EXCEPT ![r] = e.seq]
    /\ seen' = [seen EXCEPT ![r] = {e \in log : e.seq <= cursor'[r]}]
    /\ UNCHANGED <<log, token>>

LogNext ==
    \/ Append
    \/ GrantFence
    \/ \E r \in Readers : Read(r)

LogSpec == LogInit /\ [][LogNext]_logVars
=============================================================================

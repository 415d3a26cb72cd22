------------------------------ MODULE EventStore ------------------------------
(***************************************************************************)
(* The PostgreSQL event store (gwk-kernel store.rs and writer.rs) with     *)
(* several kernel processes on one database.                               *)
(*                                                                         *)
(* Two guards make a log with one writer: the session advisory lock taken  *)
(* at boot, and the durable epoch every append compares under the writer   *)
(* row lock.  The lock is as alive as its own connection, which may die    *)
(* while the pooled connections of the same process live on, so an append  *)
(* may be in flight when another process takes over.                       *)
(*                                                                         *)
(* An append is four steps, each its own action: admit a permit, lock the  *)
(* writer row, run append_locked inside the transaction, commit.  Rows     *)
(* inserted by an open transaction are the task's `staged' rows, invisible *)
(* to everyone until it commits.  A process may die, a connection may fail *)
(* and the answer to a commit may be lost between any two of the steps.    *)
(*                                                                         *)
(* An envelope is its project, aggregate, version, idempotency key and a   *)
(* body that stands for every other field the caller controls (a reused    *)
(* event_id fails the insert, which TxFails covers).  The columns the      *)
(* store assigns are `seq' and two history fields, the epoch of the writer *)
(* and the fence token presented.                                          *)
(***************************************************************************)
EXTENDS Integers, FiniteSets, Sequences

CONSTANTS
    Kernels,     \* processes that may open the store
    Tasks,       \* append tasks that may be in flight at once
    Readers,     \* consumers that page through the log from a cursor
    Projects, Aggregates, Keys, Bodies,
    NoKey,       \* an event that carries no idempotency key
    BadBodies,   \* bodies with schema_version 0 or an oversized payload
    Batches,     \* the appends callers present
    Nobody,      \* the holder of a free lock
    MaxInflight, \* MAX_INFLIGHT_APPENDS
    PageLimit,   \* MAX_READ_LIMIT
    MaxSeq,      \* u64::MAX, the ceiling of next_seq
    MaxVersion,  \* u32::MAX, the ceiling of aggregate_version
    MaxEpoch,    \* bound: boots explored
    MaxFence     \* bound: fence grants explored

Envelope ==
    [project : Projects, aggregate : Aggregates, version : Nat,
     key : Keys \cup {NoKey}, body : Bodies]

Row == [seq : Nat, env : Envelope, epoch : Nat, fence : Nat]

ASSUME StoreAssumption ==
    /\ NoKey \notin Keys
    /\ Nobody \notin Kernels \cup Tasks
    /\ Batches \subseteq [expected : Nat, events : Seq(Envelope)]
    /\ {MaxInflight, PageLimit, MaxSeq, MaxVersion, MaxEpoch, MaxFence} \subseteq Nat

VARIABLES
    writer,   \* the singleton row of gwk_internal.writer
    rowLock,  \* the task whose transaction holds that row's lock
    session,  \* the kernel whose advisory-lock connection is alive
    kernel,   \* per process: where it is in its life, and its boot epoch
    task,     \* per append task: where its transaction is
    event,    \* the committed rows of gwk.event
    cursor,   \* per reader: the last sequence it has read
    seen,     \* per reader: every row it was handed
    acked     \* history: the row sets returned to callers as appended

vars == <<writer, rowLock, session, kernel, task, event, cursor, seen, acked>>

Phases == {"idle", "admitted", "locked", "appended"}
Lives  == {"down", "booting", "open", "reader", "cancelled"}

(***************************************************************************)
(* A batch.  Its events share one aggregate once it is valid.              *)
(***************************************************************************)
EventsOf(b) == {b.events[i] : i \in DOMAIN b.events}
AggregateOf(b) == b.events[1].aggregate
KeysOf(b) == {e.key : e \in EventsOf(b)} \ {NoKey}

validate_batch(b) ==
    /\ b.events # <<>>
    /\ \A i \in DOMAIN b.events :
        /\ b.events[i].aggregate = AggregateOf(b)
        /\ b.events[i].version = b.expected + i
        /\ b.events[i].version <= MaxVersion
        /\ b.events[i].body \notin BadBodies
        /\ \A j \in 1 .. (i - 1) :
            b.events[i].key # NoKey => b.events[j].key # b.events[i].key

is_replay_of(row, env) == row.env = env

\* The rows that already landed on this aggregate under one of the batch's keys.
Landed(b) ==
    {r \in event : r.env.aggregate = AggregateOf(b) /\ r.env.key \in KeysOf(b)}

\* The stored rows, in sequence order, are the presented events one for one.
\* Versions are contiguous in both, so the pairing is by version.
Replays(b) ==
    /\ \A e \in EventsOf(b) : e.key # NoKey /\ \E r \in Landed(b) : is_replay_of(r, e)
    /\ \A r \in Landed(b) : \E e \in EventsOf(b) : is_replay_of(r, e)

\* max(aggregate_version) is v, 0 when the aggregate has no event.
current_aggregate_version(a, v) ==
    /\ \A r \in event : r.env.aggregate = a => r.env.version <= v
    /\ v = 0 \/ \E r \in event : r.env.aggregate = a /\ r.env.version = v

\* Mutant: without the project-wide unique index.
ProjectKeysUnchecked(b) == TRUE

\* The unique index event_idempotency_project admits the batch: no event of it
\* carries a key that its project has already used.
ProjectKeysFree(b) ==
    \A e \in EventsOf(b) : e.key # NoKey =>
        \A r \in event : ~(r.env.project = e.project /\ r.env.key = e.key)

FenceAccepts(w, fence) == w.fence # 0 => fence = w.fence

\* What append_locked inserts: consecutive sequences from the locked next_seq.
Inserted(epoch, w, b, fence) ==
    {[seq |-> w.next_seq + i - 1, env |-> b.events[i], epoch |-> epoch,
      fence |-> fence] : i \in DOMAIN b.events}

NoBatch == [expected |-> 0, events |-> <<>>]

Idle ==
    [phase |-> "idle", kernel |-> Nobody, batch |-> NoBatch, fence |-> 0,
     w |-> [fence |-> 0, next_seq |-> 0], staged |-> {}, reply |-> {}]

Init ==
    /\ writer = [epoch |-> 0, fence |-> 0, next_seq |-> 1]
    /\ rowLock = Nobody
    /\ session = Nobody
    /\ kernel = [k \in Kernels |-> [life |-> "down", boot_epoch |-> 0]]
    /\ task = [t \in Tasks |-> Idle]
    /\ event = {}
    /\ cursor = [r \in Readers |-> 0]
    /\ seen = [r \in Readers |-> {}]
    /\ acked = {}

-----------------------------------------------------------------------------
(***************************************************************************)
(* The life of a process.                                                  *)
(***************************************************************************)

\* pg_try_advisory_lock, never waiting: a held lock means this boot exits.
acquire(k) ==
    /\ kernel[k].life = "down"
    /\ session = Nobody
    /\ session' = k
    /\ kernel' = [kernel EXCEPT ![k].life = "booting"]
    /\ UNCHANGED <<writer, rowLock, task, event, cursor, seen, acked>>

\* PgEventStore::open.  The UPDATE waits for the row lock, then bumps the
\* committed row.  Nothing asks whether the advisory lock is still held.
claim_epoch(k) ==
    /\ kernel[k].life = "booting"
    /\ rowLock = Nobody
    /\ writer.epoch < MaxEpoch
    /\ writer' = [writer EXCEPT !.epoch = @ + 1]
    /\ kernel' = [kernel EXCEPT ![k] = [life |-> "open", boot_epoch |-> writer.epoch + 1]]
    /\ UNCHANGED <<rowLock, session, task, event, cursor, seen, acked>>

\* A store that reads: no lock, no claim, boot epoch 0.
open_reader(k) ==
    /\ kernel[k].life = "down"
    /\ kernel' = [kernel EXCEPT ![k] = [life |-> "reader", boot_epoch |-> 0]]
    /\ UNCHANGED <<writer, rowLock, session, task, event, cursor, seen, acked>>

\* The advisory-lock connection dies; the server releases the lock at once,
\* the process does not know yet.
LoseSession(k) ==
    /\ session = k
    /\ session' = Nobody
    /\ UNCHANGED <<writer, rowLock, kernel, task, event, cursor, seen, acked>>

\* The probe's round trip failed: the server stops accepting work.
cancelled(k) ==
    /\ kernel[k].life = "open"
    /\ session # k
    /\ kernel' = [kernel EXCEPT ![k].life = "cancelled"]
    /\ UNCHANGED <<writer, rowLock, session, task, event, cursor, seen, acked>>

TasksOf(k) == {t \in Tasks : task[t].kernel = k}

\* The process is gone: its connections close, so its lock is free and its open
\* transactions roll back.
GoDown(k) ==
    /\ kernel' = [kernel EXCEPT ![k] = [life |-> "down", boot_epoch |-> 0]]
    /\ session' = IF session = k THEN Nobody ELSE session
    /\ rowLock' = IF rowLock \in TasksOf(k) THEN Nobody ELSE rowLock
    /\ task' = [t \in Tasks |-> IF t \in TasksOf(k) THEN Idle ELSE task[t]]
    /\ UNCHANGED <<writer, event, cursor, seen, acked>>

\* A cancelled or stopped server drains its requests, then exits.
Exit(k) ==
    /\ kernel[k].life \in {"cancelled", "open", "reader"}
    /\ TasksOf(k) = {}
    /\ GoDown(k)

Crash(k) ==
    /\ kernel[k].life # "down"
    /\ GoDown(k)

-----------------------------------------------------------------------------
(***************************************************************************)
(* append.                                                                 *)
(***************************************************************************)

\* A request reaches a serving store and takes one of its permits; with none
\* left it is refused.
admit(t, k, b, fence) ==
    /\ task[t].phase = "idle"
    /\ kernel[k].life \in {"open", "reader"}
    /\ Cardinality(TasksOf(k)) < MaxInflight
    /\ task' = [task EXCEPT ![t] =
                  [Idle EXCEPT !.phase = "admitted", !.kernel = k, !.batch = b, !.fence = fence]]
    /\ UNCHANGED <<writer, rowLock, session, kernel, event, cursor, seen, acked>>

\* Mutant: a plain SELECT, which does not wait.
LockWithoutWaiting(t) ==
    /\ task[t].phase = "admitted"
    /\ writer.epoch = kernel[task[t].kernel].boot_epoch
    /\ rowLock' = t
    /\ task' = [task EXCEPT ![t].phase = "locked",
                            ![t].w = [fence |-> writer.fence, next_seq |-> writer.next_seq]]
    /\ UNCHANGED <<writer, session, kernel, event, cursor, seen, acked>>

\* Mutant: the row is locked and its epoch is not compared.
LockAnyEpoch(t) ==
    /\ task[t].phase = "admitted"
    /\ rowLock = Nobody
    /\ rowLock' = t
    /\ task' = [task EXCEPT ![t].phase = "locked",
                            ![t].w = [fence |-> writer.fence, next_seq |-> writer.next_seq]]
    /\ UNCHANGED <<writer, session, kernel, event, cursor, seen, acked>>

\* SELECT ... FOR UPDATE waits for the row lock and reads the committed row.
lock_writer(t) ==
    /\ task[t].phase = "admitted"
    /\ rowLock = Nobody
    /\ writer.epoch = kernel[task[t].kernel].boot_epoch
    /\ rowLock' = t
    /\ task' = [task EXCEPT ![t].phase = "locked",
                            ![t].w = [fence |-> writer.fence, next_seq |-> writer.next_seq]]
    /\ UNCHANGED <<writer, session, kernel, event, cursor, seen, acked>>

\* The transaction ends without a commit: its lock and its rows are gone.
Rollback(t) ==
    /\ rowLock' = IF rowLock = t THEN Nobody ELSE rowLock
    /\ task' = [task EXCEPT ![t] = Idle]
    /\ UNCHANGED <<writer, session, kernel, event, cursor, seen, acked>>

\* Another process took write authority: terminal for this one.
Superseded(t) ==
    /\ task[t].phase = "admitted"
    /\ rowLock = Nobody
    /\ writer.epoch # kernel[task[t].kernel].boot_epoch
    /\ Rollback(t)

Appendable(t) ==
    LET b == task[t].batch IN
    /\ validate_batch(b)
    /\ FenceAccepts(task[t].w, task[t].fence)
    /\ Landed(b) = {}
    /\ current_aggregate_version(AggregateOf(b), b.expected)
    /\ ProjectKeysFree(b)
    /\ task[t].w.next_seq + Len(b.events) <= MaxSeq

Replayable(t) ==
    /\ validate_batch(task[t].batch)
    /\ FenceAccepts(task[t].w, task[t].fence)
    /\ Landed(task[t].batch) # {}
    /\ Replays(task[t].batch)

\* append_locked on a batch that lands: its rows are staged in the transaction.
append_locked(t) ==
    /\ task[t].phase = "locked"
    /\ Appendable(t)
    /\ LET rows == Inserted(kernel[task[t].kernel].boot_epoch, task[t].w,
                            task[t].batch, task[t].fence)
       IN  task' = [task EXCEPT ![t].phase = "appended", ![t].staged = rows, ![t].reply = rows]
    /\ UNCHANGED <<writer, rowLock, session, kernel, event, cursor, seen, acked>>

\* append_locked on a keyed retry: the original rows are the answer.
ReplayLocked(t) ==
    /\ task[t].phase = "locked"
    /\ Replayable(t)
    /\ task' = [task EXCEPT ![t].phase = "appended", ![t].reply = Landed(task[t].batch)]
    /\ UNCHANGED <<writer, rowLock, session, kernel, event, cursor, seen, acked>>

\* Mutant: a refused append leaves its transaction, and the row lock, open.
RefuseKeepingLock(t) ==
    /\ task[t].phase = "locked"
    /\ ~Appendable(t) /\ ~Replayable(t)
    /\ task' = [task EXCEPT ![t] = Idle]
    /\ UNCHANGED <<writer, rowLock, session, kernel, event, cursor, seen, acked>>

\* Malformed, fenced, conflicting or exhausted: refused, nothing written.
RefuseLocked(t) ==
    /\ task[t].phase = "locked"
    /\ ~Appendable(t) /\ ~Replayable(t)
    /\ Rollback(t)

\* A connection error at any point before the commit reaches the server.
TxFails(t) ==
    /\ task[t].phase # "idle"
    /\ Rollback(t)

\* The server commits: the rows and the advanced next_seq become visible together.
Land(t) ==
    /\ task[t].phase = "appended"
    /\ event' = event \cup task[t].staged
    /\ writer' = [writer EXCEPT !.next_seq = IF task[t].staged = {} THEN @
                                ELSE task[t].w.next_seq + Len(task[t].batch.events)]
    /\ rowLock' = Nobody
    /\ task' = [task EXCEPT ![t] = Idle]
    /\ UNCHANGED <<session, kernel, cursor, seen>>

\* Mutant: the commit's error is not looked at before the caller is answered.
CommitUnchecked(t) ==
    /\ task[t].phase = "appended"
    /\ \/ Land(t)
       \/ /\ rowLock' = Nobody
          /\ task' = [task EXCEPT ![t] = Idle]
          /\ UNCHANGED <<writer, session, kernel, event, cursor, seen>>
    /\ acked' = acked \cup {task[t].reply}

Commit(t) ==
    /\ Land(t)
    /\ acked' = acked \cup {task[t].reply}

\* The server committed and the caller was told "storage": it will retry.
CommitAnswerLost(t) ==
    /\ Land(t)
    /\ UNCHANGED acked

-----------------------------------------------------------------------------
(***************************************************************************)
(* The other two operations of the port.                                   *)
(***************************************************************************)

\* One UPDATE through the pool, whoever asks: it waits for the row lock only.
grant_fence ==
    /\ rowLock = Nobody
    /\ writer.fence < MaxFence
    /\ writer' = [writer EXCEPT !.fence = @ + 1]
    /\ UNCHANGED <<rowLock, session, kernel, task, event, cursor, seen, acked>>

\* Mutant: the page is ordered the other way round.
PageDescending(r) ==
    LET after == {e \in event : e.seq > cursor[r]}
    IN  {e \in after : Cardinality({f \in after : f.seq > e.seq}) < PageLimit}

\* ORDER BY seq LIMIT n: the rows after the cursor with fewer than n before them.
Page(r) ==
    LET after == {e \in event : e.seq > cursor[r]}
    IN  {e \in after : Cardinality({f \in after : f.seq < e.seq}) < PageLimit}

read_page(r) ==
    /\ Page(r) # {}
    /\ seen' = [seen EXCEPT ![r] = @ \cup Page(r)]
    /\ \E last \in Page(r) :
        /\ \A e \in Page(r) : e.seq <= last.seq
        /\ cursor' = [cursor EXCEPT ![r] = last.seq]
    /\ UNCHANGED <<writer, rowLock, session, kernel, task, event, acked>>

KernelStep(k) ==
    \/ acquire(k) \/ claim_epoch(k) \/ open_reader(k) \/ LoseSession(k)
    \/ cancelled(k) \/ Exit(k) \/ Crash(k)

TaskStep(t) ==
    \/ lock_writer(t) \/ Superseded(t)
    \/ append_locked(t) \/ ReplayLocked(t) \/ RefuseLocked(t)
    \/ TxFails(t) \/ Commit(t) \/ CommitAnswerLost(t)

Next ==
    \/ \E k \in Kernels : KernelStep(k)
    \/ \E t \in Tasks : TaskStep(t)
    \/ \E t \in Tasks, k \in Kernels, b \in Batches, f \in 0 .. MaxFence : admit(t, k, b, f)
    \/ grant_fence
    \/ \E r \in Readers : read_page(r)

Spec == Init /\ [][Next]_vars

-----------------------------------------------------------------------------
(***************************************************************************)
(* Properties.                                                             *)
(***************************************************************************)

TaskState ==
    [phase : Phases, kernel : Kernels \cup {Nobody},
     batch : [expected : Nat, events : Seq(Envelope)], fence : Nat,
     w : [fence : Nat, next_seq : Nat], staged : SUBSET Row, reply : SUBSET Row]

\* The columns and the in-memory state keep their types.
TypeOK ==
    /\ writer \in [epoch : Nat, fence : Nat, next_seq : Nat]
    /\ rowLock \in Tasks \cup {Nobody}
    /\ session \in Kernels \cup {Nobody}
    /\ kernel \in [Kernels -> [life : Lives, boot_epoch : Nat]]
    /\ task \in [Tasks -> TaskState]
    /\ event \subseteq Row
    /\ cursor \in [Readers -> Nat]
    /\ seen \in [Readers -> SUBSET Row]
    /\ acked \subseteq SUBSET Row

\* The sequence is assigned in commit order: no two rows share one, and every
\* committed row is below the next sequence to hand out (append_locked).
SequenceUnique ==
    /\ \A e, f \in event : e.seq = f.seq => e = f
    /\ \A e \in event : e.seq < writer.next_seq

\* An aggregate's history has no hole and no fork: versions are unique, every
\* version below one that landed landed too, and version order is sequence
\* order (the CAS in append_locked).
VersionsContiguous ==
    \A e \in event :
        /\ \A f \in event : f.env.aggregate = e.env.aggregate =>
            (f.env.version < e.env.version <=> f.seq < e.seq)
        /\ \A v \in 1 .. e.env.version :
            \E f \in event : f.env.aggregate = e.env.aggregate /\ f.env.version = v

\* One key names one event per aggregate and per project, however often and
\* through however many processes the request is retried.
KeysLandOnce ==
    \A e, f \in event :
        /\ e.env.key # NoKey
        /\ e.env.key = f.env.key
        /\ e.env.aggregate = f.env.aggregate \/ e.env.project = f.env.project
        => e = f

\* A consumer that pages by cursor misses nothing and sees nothing twice: it was
\* handed exactly the committed rows up to its cursor (read_page, and the row
\* lock held from allocation to commit).
CursorComplete ==
    \A r \in Readers : seen[r] = {e \in event : e.seq <= cursor[r]}

\* Rows a caller was told were appended are in the log, also after crashes and
\* takeovers, and a retry is told the same rows.
AckedDurable ==
    \A rows \in acked :
        /\ rows # {} /\ rows \subseteq event
        /\ \A other \in acked :
            {e.env : e \in other} = {e.env : e \in rows} => other = rows

\* A row is only ever added, and only by the process whose epoch is the durable
\* one, presenting the current fence token, at the instant it becomes visible:
\* a deposed process cannot commit behind its successor's back.
OnlyCurrentWriterLands ==
    [][/\ event \subseteq event'
       /\ \A e \in event' \ event :
            /\ e.epoch = writer.epoch
            /\ writer.fence # 0 => e.fence = writer.fence]_vars
-----------------------------------------------------------------------------
(***************************************************************************)
(* The store implements the port: the committed rows are the log.          *)
(***************************************************************************)
Port == INSTANCE EventLog WITH log <- event, token <- writer.fence

\* Whatever the processes, retries, crashes and takeovers do, what callers and
\* readers can observe is a behaviour of the port (gwk-domain port.rs).
ImplementsPort == Port!LogSpec

-----------------------------------------------------------------------------
(***************************************************************************)
(* Liveness.  A running transaction goes on by itself (weak fairness), and *)
(* PostgreSQL queues the waiters of a row lock, so a waiter is not passed  *)
(* over for ever (strong fairness).  The probe is a timer, and a cancelled *)
(* server that has drained exits.  Nothing else need ever happen.          *)
(***************************************************************************)
Fairness ==
    /\ \A t \in Tasks :
        /\ SF_vars(lock_writer(t) \/ Superseded(t))
        /\ WF_vars(append_locked(t) \/ ReplayLocked(t) \/ RefuseLocked(t))
        /\ WF_vars(Commit(t) \/ CommitAnswerLost(t))
    /\ \A k \in Kernels :
        /\ WF_vars(cancelled(k))
        /\ WF_vars(kernel[k].life = "cancelled" /\ Exit(k))

FairSpec == Spec /\ Fairness

\* Every admitted append is answered: no path through append leaves the writer
\* row locked, whoever else is appending, failing or taking over.
AppendAnswered ==
    \A t \in Tasks : task[t].phase # "idle" ~> task[t].phase = "idle"

\* A serving kernel that lost its advisory lock stops serving and, its requests
\* drained, is gone (WriterLock's probe and the shutdown arm of the daemon).
LostLockStops ==
    \A k \in Kernels :
        (kernel[k].life = "open" /\ session # k) ~> kernel[k].life = "down"
=============================================================================

------------------------------- MODULE Recovery -------------------------------
(***************************************************************************)
(* Checkpoints and recovery (gwk-kernel checkpoint.rs, recover.rs, the     *)
(* checkpoint half of store.rs) and the daemon's start and stop around     *)
(* them (gridwork admin.rs, wire/serve.rs run).                            *)
(*                                                                         *)
(* The log and the projections move in one transaction; a checkpoint is    *)
(* the hash of the derived projections at a sequence, whose records are    *)
(* committed as a blob before the transaction that records it.  Outside    *)
(* the transaction projections may be lost or forged, blobs damaged and    *)
(* the log restored to an earlier point.  An operator's sweep of the blobs *)
(* takes no lock and runs at any time.                                     *)
(*                                                                         *)
(* An event writes a derived row or, when it raises an attention item, a   *)
(* row beside the log; both are named by the event.  A hash is the rows it *)
(* is of: SHA-256 tells different rows apart.                              *)
(***************************************************************************)
EXTENDS Naturals, Sequences, FiniteSetsExt

CONSTANTS
    CHECKPOINT_EVENT_INTERVAL,
    Environments      \* what may happen around the kernel, and the bounds

\* What the constants are.
RecoveryAssumption ==
    /\ CHECKPOINT_EVENT_INTERVAL \in Nat \ {0}
    /\ Environments \subseteq
        [items : BOOLEAN,              \* clients also raise attention items
         forge : BOOLEAN,              \* projections are forged or lost
         restore : BOOLEAN,            \* the log is restored to an earlier point
         sweep : BOOLEAN,              \* an operator sweeps the blobs
         events : Nat, boots : Nat, damage : Nat]   \* bounds

VARIABLES
    log,           \* gwk.event: records [id, kind]
    rows,          \* the derived projections
    items,         \* gwk.attention_item
    checkpoints,   \* gwk_internal.checkpoint: records [seq, hash]
    blobs, files,  \* the records' rows in gwk_internal.blob, and their containers
    unlinking,     \* containers whose rows a sweep has deleted
    barrier, overdue,   \* gwk_internal.writer's checkpoint_seq, checkpoint_at
    kernel,        \* down, serving, stopping, or refused with a verdict
    tx,            \* the append or stop whose blob is stored and whose row is not
    rebuild,       \* rebuild_into in flight, and its report
    events, boots, hurt,  \* events ever, starts, what was damaged or swept
    env            \* the environment of this behaviour; never changes

vars == <<log, rows, items, checkpoints, blobs, files, unlinking, barrier, overdue, kernel, tx,
          rebuild, events, boots, hurt>>

db == <<log, rows, items>>
stored == <<blobs, files, unlinking>>
evidence == <<checkpoints, stored, barrier, overdue>>
NoTx == [on |-> "none"]
NoRebuild == [pc |-> "none"]

\* The epoch opens with the genesis event, which no projection derives from.
Init ==
    /\ env \in Environments
    /\ log = <<[id |-> 0, kind |-> "genesis"]>> /\ rows = {} /\ items = {}
    /\ checkpoints = {} /\ barrier = 0 /\ overdue = TRUE
    /\ blobs = {} /\ files = {} /\ unlinking = {}
    /\ kernel = [pc |-> "down", verdict |-> "none", clean |-> FALSE, touched |-> FALSE]
    /\ tx = NoTx /\ rebuild = NoRebuild
    /\ events = 0 /\ boots = 0 /\ hurt = {}

watermark == Len(log)
Derived(l) == {l[i].id : i \in {j \in 1..Len(l) : l[j].kind = "row"}}
Raised(l) == {l[i].id : i \in {j \in 1..Len(l) : l[j].kind = "item"}}
checkpoint_due == overdue \/ watermark + 1 >= barrier + CHECKPOINT_EVENT_INTERVAL
-----------------------------------------------------------------------------
(***************************************************************************)
(* Appends, with the barrier they carry.                                   *)
(***************************************************************************)
Event == {[id |-> events + 1, kind |-> k] : k \in {"row"} \cup (IF env.items THEN {"item"} ELSE {})}

apply_event(e) ==
    /\ rows' = IF e.kind = "row" THEN rows \cup {e.id} ELSE rows
    /\ items' = IF e.kind = "item" THEN items \cup {e.id} ELSE items

Append1 ==
    /\ kernel.pc = "serving" /\ tx = NoTx /\ events < env.events /\ ~checkpoint_due
    /\ \E e \in Event : log' = Append(log, e) /\ apply_event(e)
    /\ events' = events + 1
    /\ UNCHANGED <<evidence, kernel, tx, rebuild, boots, hurt>>

\* The blob store takes records it has no row for, and the caller's word for those
\* it has one for: their container is not looked at.
Store(hash) ==
    /\ blobs' = blobs \cup {hash}
    /\ files' = IF hash \in blobs THEN files ELSE files \cup {hash}

\* snapshot: the records of the rows as the transaction will leave them go to
\* the blob store first.
AppendSnapshot ==
    /\ kernel.pc = "serving" /\ tx = NoTx /\ events < env.events /\ checkpoint_due
    /\ \E e \in Event :
        LET hash == IF e.kind = "row" THEN rows \cup {e.id} ELSE rows IN
        /\ Store(hash)
        /\ tx' = [on |-> "append", event |-> e, hash |-> hash]
    /\ events' = events + 1
    /\ UNCHANGED <<db, checkpoints, unlinking, barrier, overdue, kernel, rebuild, boots, hurt>>

\* INSERT ... ON CONFLICT DO NOTHING, and the barrier beside it.
Record(seq, hash) ==
    /\ checkpoints' = IF \E c \in checkpoints : c.seq = seq THEN checkpoints
                      ELSE checkpoints \cup {[seq |-> seq, hash |-> hash]}
    /\ barrier' = seq /\ overdue' = FALSE

AppendCommit ==
    /\ tx.on = "append"
    /\ log' = Append(log, tx.event) /\ apply_event(tx.event)
    /\ Record(watermark + 1, tx.hash)
    /\ tx' = NoTx
    /\ UNCHANGED <<stored, kernel, rebuild, events, boots, hurt>>

\* CHECKPOINT_INTERVAL_SECS elapses.
Overdue ==
    /\ kernel.pc = "serving" /\ tx = NoTx /\ ~overdue /\ overdue' = TRUE
    /\ UNCHANGED <<db, checkpoints, stored, barrier, kernel, tx, rebuild, events, boots, hurt>>
-----------------------------------------------------------------------------
(***************************************************************************)
(* Stopping.                                                               *)
(***************************************************************************)
\* checkpoint_at_watermark, after the drain: the blob, then the row.
StopSnapshot ==
    /\ kernel.pc = "serving" /\ tx = NoTx
    /\ Store(rows)
    /\ tx' = [on |-> "stop", hash |-> rows]
    /\ UNCHANGED <<db, checkpoints, unlinking, barrier, overdue, kernel, rebuild, events, boots,
                   hurt>>

StopCommit ==
    /\ tx.on = "stop"
    /\ Record(watermark, tx.hash)
    /\ tx' = NoTx
    /\ kernel' = [pc |-> "down", verdict |-> "none", clean |-> TRUE, touched |-> FALSE]
    /\ UNCHANGED <<db, stored, rebuild, events, boots, hurt>>

\* The transaction in flight rolls back; its blob is left with no reference.
Crash ==
    /\ kernel.pc = "serving"
    /\ tx' = NoTx
    /\ kernel' = [pc |-> "down", verdict |-> "none", clean |-> FALSE, touched |-> FALSE]
    /\ UNCHANGED <<db, evidence, rebuild, events, boots, hurt>>

\* A sweep takes records while the transaction that will name them waits.
Swept(taken) == IF tx # NoTx /\ tx.hash \in taken THEN hurt \cup {"swept"} ELSE hurt

\* Mutant: sweep does not ask the checkpoints.
SweepAll ==
    /\ env.sweep /\ unlinking = {} /\ blobs # {} /\ blobs' = {} /\ unlinking' = blobs /\ hurt' = Swept(blobs)
    /\ UNCHANGED <<db, checkpoints, files, barrier, overdue, kernel, tx, rebuild, events, boots>>

\* gw admin sweep, beside the kernel and under no lock: one statement deletes the
\* records that no committed checkpoint names ...
Sweep ==
    LET dead == blobs \ {c.hash : c \in checkpoints} IN
    /\ env.sweep /\ unlinking = {} /\ dead # {} /\ blobs' = blobs \ dead /\ unlinking' = dead
    /\ hurt' = Swept(dead)
    /\ UNCHANGED <<db, checkpoints, files, barrier, overdue, kernel, tx, rebuild, events, boots>>

\* ... and their files go one by one, under the names that records stored again
\* since have as well.
Unlink ==
    /\ \E b \in unlinking :
        /\ files' = files \ {b} /\ unlinking' = unlinking \ {b}
        /\ hurt' = IF b \in blobs THEN hurt \cup {"swept"} ELSE hurt
    /\ UNCHANGED <<db, checkpoints, blobs, barrier, overdue, kernel, tx, rebuild, events, boots>>
-----------------------------------------------------------------------------
(***************************************************************************)
(* What happens outside the transaction while the kernel is down.          *)
(***************************************************************************)
ForgeRow ==
    /\ env.forge /\ kernel.pc = "down" /\ "rows" \notin hurt
    /\ rows' \in {rows \cup {env.events + 1}} \cup {rows \ {r} : r \in rows} \cup {{}}
    /\ rows' # rows
    /\ kernel' = [kernel EXCEPT !.touched = TRUE] /\ hurt' = hurt \cup {"rows"}
    /\ UNCHANGED <<log, items, evidence, tx, rebuild, events, boots>>

DamageBlob ==
    /\ kernel.pc = "down" /\ Cardinality(hurt \ {"swept"}) < env.damage
    /\ \E b \in files : files' = files \ {b}
    /\ hurt' = hurt \cup {"blob"}
    /\ UNCHANGED <<db, checkpoints, blobs, unlinking, barrier, overdue, kernel, tx, rebuild, events,
                   boots>>

\* The log and its projections go back to an earlier point; the checkpoints
\* taken since stay.
Restore ==
    /\ env.restore /\ kernel.pc = "down" /\ watermark > 1 /\ "restore" \notin hurt
    /\ log' = SubSeq(log, 1, watermark - 1)
    /\ rows' = Derived(log') /\ items' = Raised(log')
    /\ kernel' = [kernel EXCEPT !.clean = FALSE]
    /\ hurt' = hurt \cup {"restore"}
    /\ UNCHANGED <<evidence, tx, rebuild, events, boots>>

\* Mutant: only the rows are deleted.
DiscardRowsOnly ==
    /\ kernel.pc \in {"down", "refused"} /\ checkpoints # {}
    /\ checkpoints' = {}
    /\ kernel' = [pc |-> "down", verdict |-> "none", clean |-> FALSE, touched |-> FALSE]
    /\ UNCHANGED <<db, stored, barrier, overdue, tx, rebuild, events, boots, hurt>>

\* gw admin discard-checkpoints: the rows, and the barrier that reads as overdue.
discard_all ==
    /\ kernel.pc \in {"down", "refused"} /\ checkpoints # {}
    /\ checkpoints' = {} /\ barrier' = 0 /\ overdue' = TRUE
    /\ kernel' = [pc |-> "down", verdict |-> "none", clean |-> FALSE, touched |-> FALSE]
    /\ UNCHANGED <<db, stored, tx, rebuild, events, boots, hurt>>
-----------------------------------------------------------------------------
(***************************************************************************)
(* recover.                                                                *)
(***************************************************************************)
Readable == blobs \cap files
validate(c) == c.seq <= watermark /\ c.hash \in Readable

\* The ladder: the newest that survives validation.
newest_valid ==
    LET valid == {c \in checkpoints : validate(c)}
    IN  {c \in valid : \A o \in valid : o.seq <= c.seq}

\* Every event through apply_event, into tables that hold no derived row.  An
\* insert of an item that is there already fails the replay.
ReplayFails == Raised(log) \cap items # {}

Warm(hash) ==
    IF \E c \in newest_valid : c.seq = watermark /\ c.hash = hash THEN "verified"
    ELSE IF \E c \in newest_valid : c.seq = watermark THEN "diverged"
    ELSE "unverified"

Ready(verdict) == verdict \notin {"diverged", "failed"}

Boot(verdict) ==
    kernel' = [kernel EXCEPT !.pc = IF Ready(verdict) THEN "serving" ELSE "refused",
                             !.verdict = verdict]

recover ==
    /\ kernel.pc \in {"down", "refused"} /\ boots < env.boots /\ boots' = boots + 1
    /\ IF rows # {}
         THEN Boot(Warm(rows)) /\ UNCHANGED <<rows, items>>
         ELSE IF ReplayFails
           THEN Boot("failed") /\ UNCHANGED <<rows, items>>
           ELSE /\ rows' = Derived(log) /\ items' = items \cup Raised(log)
                /\ Boot(IF Warm(rows') = "diverged" THEN "diverged" ELSE "replayed")
    /\ UNCHANGED <<log, evidence, tx, rebuild, events, hurt>>
-----------------------------------------------------------------------------
(***************************************************************************)
(* rebuild_into: an operator compares a serving kernel with its log.       *)
(***************************************************************************)
\* One snapshot for the log and the live hash ...
RebuildRead ==
    /\ kernel.pc = "serving" /\ rebuild = NoRebuild
    /\ rebuild' = [pc |-> "replay", log |-> log, live |-> rows]
    /\ UNCHANGED <<db, evidence, kernel, tx, events, boots, hurt>>

\* ... and the replay into the scratch database, while the kernel goes on.
RebuildReport ==
    /\ rebuild.pc = "replay"
    /\ rebuild' = [pc |-> "report", agrees |-> Derived(rebuild.log) = rebuild.live]
    /\ UNCHANGED <<db, evidence, kernel, tx, events, boots, hurt>>
-----------------------------------------------------------------------------
Next ==
    \/ Append1 \/ AppendSnapshot \/ AppendCommit \/ Overdue
    \/ StopSnapshot \/ StopCommit \/ Crash \/ Sweep \/ Unlink
    \/ ForgeRow \/ DamageBlob \/ Restore \/ discard_all
    \/ recover \/ RebuildRead \/ RebuildReport

Spec == Init /\ [][Next /\ UNCHANGED env]_<<vars, env>>
-----------------------------------------------------------------------------
(***************************************************************************)
(* Properties.                                                             *)
(***************************************************************************)
\* As long as nobody touched them or the log the projections are what the log
\* says, and neither a restart after a crash at any point nor a damaged or
\* missing checkpoint makes the kernel call them diverged.
NoFalseAlarm ==
    {"rows", "restore"} \cap hurt = {} => kernel.verdict # "diverged" /\ rows = Derived(log)

\* A clean stop is answered with a verified start, where nothing was damaged or
\* swept from under it: what it recorded is at the watermark, can be read back and
\* still matches.  A change made behind the kernel's back since is never answered
\* with one, unless the log was restored: a checkpoint of the log that is gone may
\* match what was changed.
VerdictMatchesStop ==
    kernel.pc = "serving" =>
        /\ kernel.touched /\ "restore" \notin hurt => kernel.verdict # "verified"
        /\ kernel.clean /\ hurt = {} => kernel.verdict \in {"verified", "replayed"}

\* The records of every checkpoint can be read back as long as no container is
\* damaged from outside: a sweep reclaims only what no checkpoint names.
CheckpointHasRecords ==
    "blob" \notin hurt => \A c \in checkpoints : c.hash \in Readable

\* Every checkpoint can be read back, whatever crashed between its blob and its
\* row, was discarded or restored since, and was swept before its blob or after
\* its row.  Excepted is the sweep whose statement fell between the two, or whose
\* unlinking was still to come when the same records were stored again: both take
\* records a checkpoint comes to name.
CheckpointKeepsRecords ==
    {"blob", "swept"} \cap hurt = {} => \A c \in checkpoints : c.hash \in Readable

\* An append never leaves the newest checkpoint an interval behind, after a
\* discard and a restore as well: the barrier never claims a checkpoint the
\* table does not hold.
BarrierHolds ==
    [][ Len(log') > Len(log) =>
            \E c \in checkpoints' : Len(log') < c.seq + CHECKPOINT_EVENT_INTERVAL ]_vars

\* A start never says "unverified" where the table holds readable evidence
\* about this very watermark: what it walks past, checkpoints of a log that is
\* no longer there included, does not hide what is behind it.
EvidenceIsUsed ==
    [][ boots' > boots /\ (\E c \in checkpoints : c.seq = watermark /\ c.hash \in Readable)
            => kernel'.verdict # "unverified" ]_vars

\* A rebuild beside a serving kernel does not report a divergence that is only
\* an append it raced.
RebuildAgrees ==
    "rows" \notin hurt /\ rebuild.pc = "report" => rebuild.agrees

\* What a start or a rebuild says of the projections is true, and what it rests
\* on can be read where no sweep overlapped the taking of a checkpoint.  Where one
\* did, a start may find less evidence and never draws a false conclusion.
RecoveryIsTruthful ==
    NoFalseAlarm /\ VerdictMatchesStop /\ CheckpointKeepsRecords /\ RebuildAgrees

\* A kernel nothing outside has touched starts again.
RestartServes ==
    hurt = {} => kernel.pc # "refused"
=============================================================================

----------------------------- MODULE MCDurable -----------------------------
(***************************************************************************)
(* Small instances of what the kernel keeps on disk: the blob store,       *)
(* checkpoints and recovery, the registry of migration steps and the       *)
(* schema under its administrators, and the figures of a driving window.   *)
(* The machines share no state; a behaviour runs the one that "which"      *)
(* names and leaves the others where they began.                           *)
(***************************************************************************)
EXTENDS BlobStore

CONSTANTS
    Machines,               \* the machines this run exercises
    RecoveryEnvironments, SchemaEnvironments

VARIABLES
    which,
    (* Recovery *)
    log, rows, items, checkpoints, blobs, files, unlinking, barrier, overdue, kernel, tx, rebuild,
    events, boots, hurt, mishap,
    (* Steps, Migrate *)
    steps, setting, db, lock, verb, daemon, verbs,
    (* Figures *)
    sessions, now, generation

-----------------------------------------------------------------------------
(* BlobStore. *)
Quiet == [context |-> {}, chunks |-> 1, overlap |-> FALSE, sweep |-> TRUE, retire |-> TRUE,
          seals |-> 2, crashes |-> 1]

\* The operator's commands beside two uploads; chunks sent again after a crash; a
\* content class beside the kernel's own domain; operations that overlap.
AllUploads ==
    {Quiet, [Quiet EXCEPT !.chunks = 2, !.retire = FALSE, !.crashes = 2],
     [Quiet EXCEPT !.context = {"u2"}, !.retire = FALSE, !.seals = 3],
     [Quiet EXCEPT !.overlap = TRUE, !.crashes = 0, !.sweep = FALSE],
     [Quiet EXCEPT !.overlap = TRUE, !.context = {"u2"}, !.crashes = 0, !.retire = FALSE]}

\* Nothing but two uploads.
TwoCommits == {[Quiet EXCEPT !.overlap = TRUE, !.sweep = FALSE, !.retire = FALSE, !.crashes = 0]}

-----------------------------------------------------------------------------
(* Recovery. *)
Damage(n, e) ==
    [items |-> FALSE, forge |-> FALSE, restore |-> FALSE, sweep |-> FALSE, events |-> e, boots |-> 3,
     damage |-> n]

\* Changed rows under crashes and discards; restores and several damages; sweeps
\* beside the kernel.
AllDamage ==
    {[Damage(1, 3) EXCEPT !.forge = TRUE, !.boots = 2],
     [Damage(2, 3) EXCEPT !.items = TRUE, !.restore = TRUE],
     [Damage(0, 3) EXCEPT !.sweep = TRUE, !.boots = 2],
     [Damage(1, 2) EXCEPT !.sweep = TRUE, !.forge = TRUE, !.boots = 2]}

\* Nothing is damaged, and an event may raise an attention item.
Undamaged == {[Damage(0, 2) EXCEPT !.items = TRUE, !.boots = 2]}

\* Nothing is damaged, and an operator sweeps.
Sweeping == {[Damage(0, 2) EXCEPT !.sweep = TRUE, !.boots = 2]}

Rec == INSTANCE Recovery WITH
    env <- mishap, Environments <- RecoveryEnvironments, CHECKPOINT_EVENT_INTERVAL <- 2

ASSUME Rec!RecoveryAssumption

-----------------------------------------------------------------------------
(* Steps, Migrate. *)
UNSET == [set |-> FALSE]
FIRST == "0001_kernel_internal"
LEDGER == "0006_schema_migration"
STEMS == {FIRST, "0005_pty_delivery", LEDGER}

\* Three contracts: registries with a line of two steps, a fork, a detour, a cycle.
Registry == INSTANCE Steps WITH
    Contracts <- 1..3, MALFORMED <- 9, Stems <- STEMS, INITIAL_STEMS <- {FIRST}, MAX_STEPS <- 3

Step(b, r, carries, replaces) ==
    [base |-> b, result |-> r, carries |-> carries, commits |-> FALSE,
     replaces |-> replaces, stamps |-> TRUE, guards |-> Registry!Guarded]

\* The three steps of this repository: 1 -> 2 brings two backend migrations,
\* 2 -> 3 creates a table, 3 -> 4 replaces a function.
Chain4 ==
    <<Step(1, 2, <<"0005_pty_delivery", LEDGER>>, FALSE), Step(2, 3, <<>>, FALSE),
      Step(3, 4, <<>>, TRUE)>>
\* The first step adds columns to projections and rewrites gates; the others touch
\* no projection.
RowLayouts == <<1, 2, 2, 2>>
Creating == <<[Chain4[1] EXCEPT !.result = 3], [Chain4[2] EXCEPT !.base = 3, !.result = 4]>>

Role == [exists |-> TRUE, attributes |-> {}]
Url == [set |-> TRUE, bytes |-> 20, scheme |-> "postgres"]
Days(n) == [set |-> TRUE, number |-> n]

\* The operator's shell, and the daemon's unit file.
Operator == [GWK_ADMIN_DATABASE_URL |-> Url,
          GWK_RUNTIME_ROLE |-> [set |-> TRUE, bytes |-> 7, first |-> "lower",
                                rest |-> {"lower", "underscore"}, keyword |-> FALSE]]
Unit == [GWK_ADMIN_DATABASE_URL |-> UNSET, GWK_DATABASE_URL |-> Url, GWK_SOCKET_PATH |-> UNSET,
         GWK_BLOB_ROOT |-> [set |-> TRUE, bytes |-> 9, absolute |-> TRUE],
         GWK_BLOB_KEK |-> [set |-> TRUE, base64 |-> TRUE, decoded |-> 32],
         GWK_BLOB_KEK_ID |-> [set |-> TRUE, bytes |-> 4, kinds |-> {"letter", "dash"}],
         GWK_PTY_RECORDING_RETENTION_DAYS |-> UNSET, GWK_CONTEXT_RETENTION_DAYS_MANIFEST |-> Days(1),
         GWK_CONTEXT_RETENTION_DAYS_RELEASE |-> UNSET, GWK_CONTEXT_RETENTION_DAYS_OBSERVATION |-> UNSET]
Verb(name, from, dry) == [name |-> name, from |-> from, dry_run |-> dry]
Migrate1 == Verb("migrate", 0, FALSE)
Granted == Registry!privilege_statements(Registry!NothingHeld)

\* An initialised database has its privileges, an empty one none.
Environment(base, stems, reg) ==
    [registry |-> reg, current |-> 4, base |-> base, stems |-> stems, held |-> IF base = 0 THEN Registry!NothingHeld ELSE Granted,
     foreign |-> FALSE, serving |-> base # 0, role |-> Role, shell |-> Operator, unit |-> Unit,
     commands |-> {Migrate1}, lossy |-> FALSE, daemon_lossy |-> FALSE]

AllAdministrators ==
    { \* kills and refusals between two operators, from each base
      [Environment(1, {FIRST}, Chain4) EXCEPT
          !.commands = {Migrate1, Verb("migrate", 1, TRUE), Verb("migrate", 2, FALSE), Verb("discard", 0, FALSE)}],
      [Environment(3, STEMS, Chain4) EXCEPT !.commands = {Migrate1, Verb("init", 0, FALSE)}],
      \* operators whose locks die, over steps that create
      [Environment(1, {FIRST}, Creating) EXCEPT
          !.lossy = TRUE, !.commands = {Migrate1, Verb("discard", 0, FALSE), Verb("discard", 0, TRUE)}],
      \* and over the step that only replaces
      [Environment(3, STEMS, Chain4) EXCEPT !.lossy = TRUE],
      \* a daemon whose lock dies and who learns of it late
      [Environment(1, {FIRST}, Chain4) EXCEPT !.daemon_lossy = TRUE],
      [Environment(2, STEMS, Chain4) EXCEPT !.daemon_lossy = TRUE],
      \* a privilege the statements do not take back, and one they do
      [Environment(3, STEMS, Chain4) EXCEPT !.held = [Granted EXCEPT !["task"] = @ \cup {"delete"}]],
      [Environment(3, STEMS, Chain4) EXCEPT !.held = [Granted EXCEPT !["cost_entry"] = @ \cup {"update"}]],
      \* steps that lose a guard, one that does not stamp, one that forgot the ledger
      Environment(2, STEMS, [Chain4 EXCEPT ![3].guards.hollow = {<<"truncate", "event">>}]),
      Environment(2, STEMS, [Chain4 EXCEPT ![3].guards.delete = @ \ {"task"}]),
      Environment(2, STEMS, [Chain4 EXCEPT ![3].guards.half_closed = {"closed_without_time"}]),
      Environment(2, STEMS, [Chain4 EXCEPT ![3].stamps = FALSE]),
      Environment(2, {FIRST}, Chain4),
      \* an empty database, another's, and roles init refuses
      [Environment(0, {}, Chain4) EXCEPT !.commands = {Verb("init", 0, FALSE), Migrate1}, !.lossy = TRUE],
      [Environment(0, {}, Chain4) EXCEPT !.commands = {Verb("init", 0, FALSE)}, !.foreign = TRUE],
      [Environment(0, {}, Chain4) EXCEPT !.commands = {Verb("init", 0, FALSE)},
          !.role = [Role EXCEPT !.attributes = {"CREATEROLE"}]],
      [Environment(3, STEMS, Chain4) EXCEPT !.role = [Role EXCEPT !.exists = FALSE]],
      \* environments a process refuses
      [Environment(3, STEMS, Chain4) EXCEPT !.shell.GWK_RUNTIME_ROLE.bytes = 64],
      [Environment(3, STEMS, Chain4) EXCEPT !.unit.GWK_ADMIN_DATABASE_URL = Url],
      [Environment(3, STEMS, Chain4) EXCEPT !.unit.GWK_CONTEXT_RETENTION_DAYS_RELEASE = Days(0)] }

Schema == INSTANCE Migrate WITH
    env <- setting, Environments <- SchemaEnvironments, Contracts <- 1..4, MALFORMED <- 9, Layouts <- RowLayouts,
    Stems <- STEMS, INITIAL_STEMS <- {FIRST}, MAX_STEPS <- 3, MAX_IDENTIFIER_BYTES <- 63,
    MAX_KEK_ID_BYTES <- 64, DEK_BYTES <- 32, MAX_DAYS <- 40, Operators <- {"o1", "o2"},
    MAX_EVENTS <- 3, MAX_VERBS <- 3, MAX_EPOCH <- 3

-----------------------------------------------------------------------------
Fig == INSTANCE Figures WITH
    rows <- sessions, MAX_SESSIONS <- 3, MAX_TIME <- 2, MAX_GENERATION <- 2, MAX_ATTACHES <- 1

-----------------------------------------------------------------------------
recVars == <<log, rows, items, checkpoints, blobs, files, unlinking, barrier, overdue, kernel, tx,
             rebuild, events, boots, hurt, mishap>>
schemaVars == <<setting, db, lock, verb, daemon, verbs>>
figVars == <<sessions, now, generation>>

MCInit ==
    /\ which \in Machines
    /\ Init /\ (which # "blobs" => env = CHOOSE e \in Environments : TRUE)
    /\ Rec!Init /\ (which # "recovery" => mishap = CHOOSE e \in RecoveryEnvironments : TRUE)
    /\ Registry!StepsInit
    /\ Schema!Init /\ (which # "schema" => setting = CHOOSE e \in SchemaEnvironments : TRUE)
    /\ Fig!Init

MCNext ==
    /\ UNCHANGED <<which, env>>
    /\ \/ which = "blobs" /\ Next /\ UNCHANGED <<recVars, steps, schemaVars, figVars>>
       \/ which = "recovery" /\ Rec!Next /\ UNCHANGED <<mishap, vars, steps, schemaVars, figVars>>
       \/ which = "registry" /\ Registry!WriteStep /\ UNCHANGED <<vars, recVars, schemaVars, figVars>>
       \/ which = "schema" /\ Schema!Next /\ UNCHANGED <<vars, recVars, steps, figVars>>
       \/ which = "figures" /\ Fig!Next /\ UNCHANGED <<vars, recVars, steps, schemaVars>>

MCSpec == MCInit /\ [][MCNext]_<<which, env, vars, recVars, steps, schemaVars, figVars>>

-----------------------------------------------------------------------------
\* Recovery: what a start says is true, and rests on evidence that is there.
RecoveryIsTruthful == which = "recovery" => Rec!RecoveryIsTruthful

\* Recovery: no append leaves the newest checkpoint an interval behind.
BarrierHolds == Rec!BarrierHolds

\* Steps, Migrate: what the database says of itself is what it is.
RecordMatchesSchema ==
    /\ which = "registry" => Registry!ShippedRegistryCarries
    /\ which = "schema" => Schema!RecordMatchesSchema /\ Schema!EvidenceIsOfTheseRows

\* Recovery: a sweep never reclaims records a checkpoint names.
CheckpointHasRecords == Rec!CheckpointHasRecords

\* Recovery: a kernel nothing outside has touched starts again.
RestartServes == Rec!RestartServes

\* Figures: the SQL's figures are those of the sessions.
FiguresAreTrue == which = "figures" => Fig!FiguresAreTrue
=============================================================================

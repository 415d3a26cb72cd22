------------------------------- MODULE Migrate -------------------------------
(***************************************************************************)
(* The schema of one database under its administrators: gw admin init,     *)
(* migrate and discard-checkpoints, run by hand and killed at any point,   *)
(* beside the daemon they are meant to exclude.                            *)
(*                                                                         *)
(* Everybody takes the writer lock first.  It lives in a session of its    *)
(* own: when the session dies the lock is free at once, and its holder     *)
(* learns of it later or, in an administrative verb, mostly not at all.    *)
(* PostgreSQL is modelled by what it grants: a transaction sees what is    *)
(* committed and its own statements, a failed or abandoned one leaves      *)
(* nothing, and the first statement of a step excludes other migrations    *)
(* until it ends.                                                          *)
(***************************************************************************)
EXTENDS Integers, Steps

CONSTANTS
    Operators,        \* the administrators' processes
    Environments,     \* what an instance may meet; see Init
    Layouts,          \* of each contract, how its projection rows read: a step that adds
                      \* a column to them or rewrites their values changes it
    MAX_EVENTS, MAX_VERBS, MAX_EPOCH,
    MAX_IDENTIFIER_BYTES, MAX_KEK_ID_BYTES, DEK_BYTES, MAX_DAYS

VARIABLES
    env,              \* rigid: the environment
    db,               \* what is committed
    lock,             \* the holder of the writer lock
    verb,             \* per operator: the command it runs and how far it is
    daemon,           \* the kernel
    verbs             \* commands started so far

vars == <<env, db, lock, verb, daemon, verbs>>

-----------------------------------------------------------------------------
(* What the kernel's processes demand of their environment before they     *)
(* touch anything.  A variable is UNSET or a record of the features the    *)
(* checks look at: `bytes` after trimming, its `scheme`, whether a path is *)
(* absolute, what base64 decodes to, the number it reads as, and the kinds *)
(* of characters in an identifier.                                         *)

UNSET == [set |-> FALSE]
Set(v) == v.set

database_url(v) == Set(v) /\ v.bytes > 0 /\ v.scheme \in {"postgres", "postgresql"}

\* A bare lowercase identifier that is no keyword for a role.
validate_role(v) ==
    /\ v.bytes \in 1..MAX_IDENTIFIER_BYTES
    /\ v.first \in {"lower", "underscore"}
    /\ v.rest \subseteq {"lower", "digit", "underscore"}
    /\ ~v.keyword

validate_kek_id_for(v) ==
    v.bytes \in 1..MAX_KEK_ID_BYTES /\ v.kinds \subseteq {"letter", "digit", "dot", "underscore", "dash"}

read_kek(v) == Set(v) /\ v.base64 /\ v.decoded = DEK_BYTES

\* A whole number of days that fits and is above zero.
positive_days(v) == v.number \in 1..MAX_DAYS

\* The daemon refuses to start beside the schema owner's credential.
kernel_config(environ) ==
    /\ ~Set(environ.GWK_ADMIN_DATABASE_URL)
    /\ database_url(environ.GWK_DATABASE_URL)
    /\ Set(environ.GWK_SOCKET_PATH) => environ.GWK_SOCKET_PATH.bytes > 0

admin_config(environ) ==
    /\ database_url(environ.GWK_ADMIN_DATABASE_URL)
    /\ Set(environ.GWK_RUNTIME_ROLE) /\ validate_role(environ.GWK_RUNTIME_ROLE)

RetentionVars ==
    {"GWK_PTY_RECORDING_RETENTION_DAYS", "GWK_CONTEXT_RETENTION_DAYS_MANIFEST",
     "GWK_CONTEXT_RETENTION_DAYS_RELEASE", "GWK_CONTEXT_RETENTION_DAYS_OBSERVATION"}

blob_config(environ) ==
    /\ Set(environ.GWK_BLOB_ROOT) /\ environ.GWK_BLOB_ROOT.bytes > 0 /\ environ.GWK_BLOB_ROOT.absolute
    /\ read_kek(environ.GWK_BLOB_KEK)
    /\ Set(environ.GWK_BLOB_KEK_ID) /\ validate_kek_id_for(environ.GWK_BLOB_KEK_ID)
    /\ \A name \in RetentionVars : Set(environ[name]) => positive_days(environ[name])

-----------------------------------------------------------------------------
NONE == 0             \* no contract is recorded
FREE == "free"
Idle == [pc |-> "idle"]
Down == [pc |-> "down"]
registry == env.registry
CURRENT == env.current     \* CONTRACT_SQL_SHA256 of the binaries in use

\* The migrations that make the ledger and are needed to write into it.
LedgerStem == "0006_schema_migration"

Database(contract, stems) ==
    [gwk |-> contract # NONE, stamp |-> contract, shape |-> contract, stems |-> stems,
     granted |-> FALSE, ledger |-> <<>>, checkpoints |-> {}, events |-> IF contract = NONE THEN 0 ELSE 1,
     epoch |-> 0]

\* What the runtime role holds: what it was found with, or what this build's
\* statements made of that.
Held == IF db.granted THEN privilege_statements(env.held) ELSE env.held

\* A database of an earlier build with that build's daemon serving it, an empty
\* one, or somebody else's.
Init ==
    /\ env \in Environments
    /\ db = [Database(env.base, env.stems) EXCEPT !.epoch = IF env.serving THEN 1 ELSE 0]
    /\ lock = IF env.serving THEN "daemon" ELSE FREE
    /\ verb = [o \in Operators |-> Idle]
    /\ daemon = IF env.serving THEN [pc |-> "up", contract |-> env.base, epoch |-> 1] ELSE Down
    /\ verbs = 0

\* The guards its relations have: those the last step left.
Guards ==
    LET last == SelectInSeq(registry, LAMBDA s : db.ledger # <<>> /\ s.result = Last(db.ledger).result)
    IN  IF last = 0 THEN Guarded ELSE registry[last].guards
-----------------------------------------------------------------------------
(***************************************************************************)
(* Shared by the verbs.                                                    *)
(***************************************************************************)
classify ==
    IF env.foreign THEN "foreign"
    ELSE IF ~db.gwk /\ db.stamp = NONE THEN "empty"
    ELSE IF db.gwk /\ db.stamp # NONE THEN "initialized"
    ELSE "foreign"

RoleServes == env.role.exists /\ env.role.attributes \cap RoleAttributes = {}

Freed(o) == IF lock = o THEN FREE ELSE lock

\* The process ends, and what it holds goes with it.
Leave(o, outcome) ==
    /\ verb' = [verb EXCEPT ![o] = Idle]
    /\ lock' = Freed(o)
    /\ UNCHANGED <<db, daemon, verbs>>

\* Goes on to another step.
Goto(o, next) ==
    /\ verb' = [verb EXCEPT ![o] = next]
    /\ UNCHANGED <<db, lock, daemon, verbs>>

\* The transaction that has run a step's statements, if there is one.
Migrating == {o \in Operators : verb[o].pc \in {"step", "record", "check"} /\ verb[o].done > 0}
\* It has the writer row from its discard on.
HoldsWriterRow == \E o \in Operators : verb[o].pc = "check"

\* A command line: its configuration, and then the lock, which never waits.
Start ==
    /\ verbs < MAX_VERBS /\ admin_config(env.shell) /\ lock = FREE
    /\ \E o \in Operators, what \in env.commands :
          /\ verb[o].pc = "idle"
          /\ lock' = o /\ verbs' = verbs + 1
          /\ verb' = [verb EXCEPT ![o] = [pc |-> "locked", what |-> what, lost |-> FALSE]]
    /\ UNCHANGED <<db, daemon>>
-----------------------------------------------------------------------------
(***************************************************************************)
(* gw admin init.                                                          *)
(***************************************************************************)
InitInspect(o) ==
    /\ verb[o].pc = "locked" /\ verb[o].what.name = "init"
    /\ IF ~RoleServes THEN Leave(o, "refused")
       ELSE IF classify = "empty" THEN Goto(o, [verb[o] EXCEPT !.pc = "contract"])
       ELSE IF classify = "initialized" /\ db.stamp = CURRENT THEN Goto(o, [verb[o] EXCEPT !.pc = "genesis"])
       ELSE Leave(o, "refused")

\* The contract's script commits alone ...
InitContract(o) ==
    /\ verb[o].pc = "contract"
    /\ IF db.gwk THEN Leave(o, "failed")
       ELSE /\ db' = [db EXCEPT !.gwk = TRUE, !.shape = CURRENT]
            /\ verb' = [verb EXCEPT ![o].pc = "backend"]
            /\ UNCHANGED <<lock, daemon, verbs>>

\* ... and then the backend's migrations, the fingerprint and the privileges.
backend_script(o) ==
    /\ verb[o].pc = "backend"
    /\ IF db.stamp # NONE THEN Leave(o, "failed")
       ELSE /\ db' = [db EXCEPT !.stamp = CURRENT, !.stems = Stems, !.granted = TRUE]
            /\ verb' = [verb EXCEPT ![o].pc = "genesis"]
            /\ UNCHANGED <<lock, daemon, verbs>>

\* PgEventStore::open claims an epoch; the log gets its first event once.
ensure_genesis(o) ==
    /\ verb[o].pc = "genesis"
    /\ db' = [db EXCEPT !.epoch = @ + 1, !.events = IF @ = 0 THEN 1 ELSE @]
    /\ verb' = [verb EXCEPT ![o] = Idle]
    /\ lock' = Freed(o)
    /\ UNCHANGED <<daemon, verbs>>
-----------------------------------------------------------------------------
(***************************************************************************)
(* gw admin migrate.                                                       *)
(***************************************************************************)
\* --from states a base; without it the base is what the database records.
BaseOf(what) == IF what.from = NONE THEN db.stamp ELSE what.from

MigrateInspect(o) ==
    /\ verb[o].pc = "locked" /\ verb[o].what.name = "migrate"
    /\ IF classify # "initialized" THEN Leave(o, "refused")
       ELSE LET chain == resolve(registry, BaseOf(verb[o].what), CURRENT)
            IN  IF ~chain.ok THEN Leave(o, "refused")
                ELSE Goto(o, [pc |-> "base", what |-> verb[o].what, recorded |-> db.stamp,
                              base |-> BaseOf(verb[o].what), chain |-> chain.chain])

\* The database records the contract the chain starts from, and another than the
\* binary's.
BaseHolds(expected) == db.stamp # NONE /\ db.stamp # CURRENT /\ db.stamp = expected

\* assert_base on what the database records by now, the role, and --dry-run.
assert_base(o) ==
    /\ verb[o].pc = "base"
    /\ IF ~BaseHolds(verb[o].base) THEN Leave(o, "refused")
       ELSE IF ~RoleServes THEN Leave(o, "refused")
       ELSE IF verb[o].what.dry_run THEN Leave(o, "planned")
       ELSE Goto(o, [verb[o] EXCEPT !.pc = "begin"])

\* The transaction begins with the log as it is.
Begin(o) ==
    /\ verb[o].pc = "begin"
    /\ IF verb[o].chain = <<>> THEN Leave(o, "refused")
       ELSE Goto(o, [pc |-> "step", what |-> verb[o].what, recorded |-> verb[o].recorded,
                     chain |-> verb[o].chain, before |-> db.events, done |-> 0, stems |-> {}])

\* A step's own statements and the migrations it carries.  Creating what is
\* there fails; a step that only replaces runs again.
StepRuns(o) ==
    LET s == verb[o].chain[verb[o].done + 1]
    IN  /\ verb[o].done = 0 => db.shape = s.base \/ (s.replaces /\ db.shape = s.result)
        /\ ToSet(s.carries) \subseteq Stems \ (db.stems \cup verb[o].stems)

ApplyStep(o) ==
    /\ verb[o].pc = "step" /\ verb[o].done < Len(verb[o].chain)
    /\ Migrating \subseteq {o}
    /\ IF ~StepRuns(o) THEN Leave(o, "failed")
       ELSE LET s == verb[o].chain[verb[o].done + 1]
            IN  Goto(o, [verb[o] EXCEPT !.done = @ + 1, !.stems = @ \cup ToSet(s.carries),
                             !.pc = IF verb[o].done + 1 = Len(verb[o].chain) THEN "record" ELSE "step"])

\* lock_timeout: somebody else's statements are in the way.
LockTimeout(o) ==
    /\ verb[o].pc \in {"step", "record"} /\ Migrating \ {o} # {}
    /\ Leave(o, "failed")

\* The fingerprint as the last step left it, a ledger row for each step, the
\* checkpoints discarded, and the log counted again.
Record(o) ==
    /\ verb[o].pc = "record"
    /\ IF \/ ~Last(verb[o].chain).stamps
          \/ verb[o].chain[1].base # verb[o].recorded
          \/ LedgerStem \notin db.stems \cup verb[o].stems
         THEN Leave(o, "failed")
         ELSE Goto(o, [pc |-> "check", what |-> verb[o].what, chain |-> verb[o].chain, done |-> verb[o].done,
                       before |-> verb[o].before, after |-> db.events, stems |-> verb[o].stems])

\* Mutant: one row for the run, from where it started to where it ended.
OneRowPerRun(chain) == <<[base |-> chain[1].base, result |-> Last(chain).result]>>

\* One row per step: base, result, and the step's own name.
LedgerRows(chain) == [i \in DOMAIN chain |-> [base |-> chain[i].base, result |-> chain[i].result]]

\* Mutant: the checkpoints outlive the contract they were taken under.
MigratedKeeping(o) ==
    [db EXCEPT !.stamp = Last(verb[o].chain).result, !.shape = Last(verb[o].chain).result,
               !.stems = @ \cup verb[o].stems, !.granted = TRUE,
               !.ledger = @ \o LedgerRows(verb[o].chain)]

\* What the transaction leaves when it commits.
Migrated(o) ==
    [db EXCEPT !.stamp = Last(verb[o].chain).result, !.shape = Last(verb[o].chain).result,
               !.stems = @ \cup verb[o].stems, !.granted = TRUE,
               !.ledger = @ \o LedgerRows(verb[o].chain), !.checkpoints = {}]

\* assert_grant_matrix and assert_protections_within, and the commit.
Commit(o) ==
    /\ verb[o].pc = "check"
    /\ IF ~assert_grant_matrix(privilege_statements(env.held)) \/ ~assert_protections_within(Last(verb[o].chain).guards)
         THEN Leave(o, "failed")
         ELSE /\ db' = Migrated(o)
              /\ verb' = [verb EXCEPT ![o] = [pc |-> "verify", before |-> @.before, after |-> @.after]]
              /\ UNCHANGED <<lock, daemon, verbs>>

\* The contract, and a log nobody moved under the migration or after it.
ResultHolds(v) == db.stamp = CURRENT /\ db.events = v.after /\ v.before = v.after

\* Read back after the commit, where a writer nobody excluded shows.
assert_result(o) ==
    /\ verb[o].pc = "verify"
    /\ Leave(o, IF ResultHolds(verb[o]) THEN "verified" ELSE "unverified")
-----------------------------------------------------------------------------
(***************************************************************************)
(* gw admin discard-checkpoints.                                           *)
(***************************************************************************)
discard_checkpoints(o) ==
    /\ verb[o].pc = "locked" /\ verb[o].what.name = "discard"
    /\ IF verb[o].what.dry_run THEN Leave(o, "planned")
       ELSE IF verb[o].lost THEN Leave(o, "fenced")
       ELSE /\ ~HoldsWriterRow
            /\ db' = [db EXCEPT !.checkpoints = {}]
            /\ verb' = [verb EXCEPT ![o] = Idle]
            /\ lock' = Freed(o)
            /\ UNCHANGED <<daemon, verbs>>
-----------------------------------------------------------------------------
(***************************************************************************)
(* The daemon.                                                             *)
(***************************************************************************)
\* derived_records: rows of another layout do not parse into a binary's types, or
\* are of relations that are not there.
Parses(contract) == Layouts[contract] = Layouts[db.shape]

\* snapshot: the hash of the rows as they read now, with no word of the contract,
\* kept unless there is a checkpoint of that sequence already.
Snapshot(at) ==
    IF \E c \in db.checkpoints : c.at = at THEN db.checkpoints
    ELSE db.checkpoints \cup {[at |-> at, rows |-> Layouts[db.shape]]}

\* Verdict::Diverged: the checkpoint at the end of the log is of other rows.
Diverged == \E c \in db.checkpoints : c.at = db.events /\ c.rows # Layouts[db.shape]

\* The build the database is of, or the binary in use: the lock, its privileges, an
\* epoch, and recover, which hashes the rows and compares the newest checkpoint at
\* the end of the log.  What contract the database records is not asked; the
\* relations are just used.
DaemonStart ==
    /\ daemon.pc = "down" /\ db.epoch < MAX_EPOCH /\ lock = FREE /\ db.stamp # NONE
    /\ kernel_config(env.unit) /\ blob_config(env.unit) /\ ~HoldsWriterRow
    /\ RuntimeViolations(env.role, Held) = {}
    /\ db' = [db EXCEPT !.epoch = @ + 1]
    /\ \E contract \in {env.base, CURRENT} \ {NONE} :
        IF Parses(contract) /\ ~Diverged
          THEN /\ daemon' = [pc |-> "up", contract |-> contract, epoch |-> db.epoch + 1]
               /\ lock' = "daemon"
          ELSE UNCHANGED <<daemon, lock>>
    /\ UNCHANGED <<verb, verbs>>

\* An append, which takes a checkpoint when one is due and fails when it cannot.
DaemonAppend ==
    /\ daemon.pc = "up" /\ daemon.epoch = db.epoch /\ ~HoldsWriterRow /\ db.events < MAX_EVENTS
    /\ \E due \in BOOLEAN :
        /\ due => Parses(daemon.contract)
        /\ db' = [db EXCEPT !.events = @ + 1,
                            !.checkpoints = IF due THEN Snapshot(db.events + 1) ELSE @]
    /\ UNCHANGED <<lock, verb, daemon, verbs>>

\* It stops when told to, or when the probe finds the lock's session gone, and
\* leaves a checkpoint unless its epoch is over or the rows do not parse.
DaemonStop ==
    /\ daemon.pc = "up" /\ ~HoldsWriterRow
    /\ db' = [db EXCEPT !.checkpoints = IF daemon.epoch = db.epoch /\ Parses(daemon.contract)
                  THEN Snapshot(db.events) ELSE @]
    /\ lock' = Freed("daemon") /\ daemon' = Down
    /\ UNCHANGED <<verb, verbs>>
-----------------------------------------------------------------------------
(***************************************************************************)
(* What goes wrong.                                                        *)
(***************************************************************************)
Kill(o) ==
    /\ verb[o].pc # "idle"
    /\ Leave(o, "killed")

KillDaemon ==
    /\ daemon.pc = "up" /\ daemon' = Down /\ lock' = Freed("daemon")
    /\ UNCHANGED <<db, verb, verbs>>

\* The session that holds the lock dies; discard-checkpoints asks the probe.
LoseLock(o) ==
    /\ env.lossy /\ lock = o /\ lock' = FREE
    /\ verb' = IF "lost" \in DOMAIN verb[o]
                 THEN [verb EXCEPT ![o].lost = TRUE] ELSE verb
    /\ UNCHANGED <<db, daemon, verbs>>

DaemonLosesLock ==
    /\ env.daemon_lossy /\ lock = "daemon" /\ lock' = FREE
    /\ UNCHANGED <<db, verb, daemon, verbs>>

OperatorNext ==
    \E o \in Operators :
        \/ InitInspect(o) \/ InitContract(o) \/ backend_script(o) \/ ensure_genesis(o)
        \/ MigrateInspect(o) \/ assert_base(o) \/ Begin(o) \/ ApplyStep(o) \/ LockTimeout(o)
        \/ Record(o) \/ Commit(o) \/ assert_result(o) \/ discard_checkpoints(o)
        \/ Kill(o) \/ LoseLock(o)

Next ==
    /\ \/ Start \/ OperatorNext
       \/ DaemonStart \/ DaemonAppend \/ DaemonStop \/ KillDaemon \/ DaemonLosesLock
    /\ UNCHANGED env
-----------------------------------------------------------------------------
(***************************************************************************)
(* Properties.                                                             *)
(***************************************************************************)
\* The steps the ledger says the database took: a row that repeats the one before
\* it is a step taken again.
Taken ==
    FoldLeft(LAMBDA rows, r : IF rows # <<>> /\ Last(rows) = r THEN rows ELSE Append(rows, r),
             <<>>, db.ledger)
Repeated(i) == i > 1 /\ db.ledger[i] = db.ledger[i - 1]
StepOf(r) == {s \in ToSet(registry) : s.base = r.base /\ s.result = r.result}

\* The ledger is one line of registered steps from where the database started to
\* the contract it records.  A row comes twice only where an operator's lock died
\* under a migration and the step is one that runs again without harm, because it
\* creates nothing and only replaces: then a second operator's run of it is
\* recorded too, from a base the database has left.
LedgerIsHistory ==
    /\ IsLine(Taken, IF env.base = NONE THEN CURRENT ELSE env.base, db.stamp)
    /\ \A i \in DOMAIN db.ledger :
        /\ StepOf(db.ledger[i]) # {}
        /\ Repeated(i) => env.lossy /\ \A s \in StepOf(db.ledger[i]) : s.replaces

\* Whatever was killed, refused, raced or lost its lock, what the database says
\* of itself is what it is: the contract it records is the one its relations and
\* its backend migrations have, the ledger tells how it got there, and at the
\* binary's contract the runtime role holds exactly the declared privileges; the
\* guards of the log are in place throughout.
RecordMatchesSchema ==
    db.stamp # NONE =>
        /\ db.shape = db.stamp
        /\ LedgerIsHistory
        /\ db.stamp = CURRENT /\ db.ledger # <<>> => assert_grant_matrix(Held)
        /\ <<"truncate", "event">> \notin Guards.hollow /\ <<"delete", "event">> \notin Guards.hollow
        /\ TruncateGuarded \subseteq Guards.truncate /\ DeleteGuarded \subseteq Guards.delete
        /\ db.stamp = CURRENT => db.stems = Stems

\* No start finds a checkpoint of rows the database no longer has: neither a
\* migration cut short, nor one that raced a restart, nor a daemon that lost its
\* lock and stops after the migration leaves evidence that calls sound projections
\* diverged.
EvidenceIsOfTheseRows ==
    \A c \in db.checkpoints : c.rows = Layouts[db.shape]
=============================================================================

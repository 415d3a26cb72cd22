# GridWork: a TLA+ verification project

GridWork is an operating layer for coding agents. One daemon, the kernel, owns
an append-only event log in PostgreSQL; every client (command line, console, PTY
host, adapters) reaches it over a Unix socket. This directory models the system
from its source, checks the models with TLC on small instances, and proves the
safety of eight components with TLAPS for every value of their constants.

Contents: 1 the system, 2 modules, 3 state, actions and code, 4 runs and bounds,
5 fairness, 6 where code and comments disagree, 7 what is proved, 8 what is only
model-checked, 9 what is not modelled.

## 1. The system

A command arrives on a connection and is submitted in one transaction (event,
projection rows, receipt, page, delivery row); the committed event reaches
subscribers by sequence. A PTY command also leaves a delivery row, which a host
process connected to the same socket claims, applies and acknowledges. The host
publishes its children's screens back to the kernel, which fans them out to the
consoles that look at them. Around this run a sweep that expires leases, a blob
store for payloads and records, checkpoints and recovery at start, and the
administrative commands that create and migrate the schema. Consoles read
projections page by page and submit commands of their own.

| Part | Source | Hard behaviours |
| --- | --- | --- |
| Event store, writer authority | gwk-kernel `store.rs`, `writer.rs` | takeover with appends in flight, lost commit answers, retries, a lock that dies unnoticed |
| Command submission | gwk-kernel `submit.rs`, `epoch.rs`, `authority.rs`, `project.rs`; gwk-domain `fsm.rs` | refusals that commit a receipt, key reuse, sealed epoch, version races |
| TTL sweep | gwk-kernel `ttl_sweep.rs` | heartbeats between read and write, lost passes |
| PTY delivery and starts | gwk-kernel `wire/serve.rs`, `wire/pty.rs`; gwk-pty-host | crashes on either side, timeouts racing late answers, reconnects |
| PTY screens | gwk-kernel `wire/pty.rs`; gwk-pty; gwk-pty-host `publish.rs`, `wire.rs` | slow attachments, evicted frames, generations |
| Connections, subscriptions, socket | gwk-kernel `wire/`, `listen.rs`; gwk-domain `frame.rs`, `protocol.rs` | slow consumers, lost notifications, stale sockets |
| Blob store | gwk-kernel `blob/` | a crash between file and row, overlapping operations |
| Checkpoints, recovery | gwk-kernel `checkpoint.rs`, `recover.rs`; gridwork `admin.rs` | damaged evidence, restored logs |
| Migrations, administration | gwk-kernel `migrate.rs`, `admin.rs`; xtask | a verb killed at any statement beside the daemon |
| Context, skills | gwk-context, -compiler, -verifier, gwk-kernel `context.rs` | order of candidates, racing and repeating callers |
| Console, board, hall, configuration | gridwork `tui.rs`, `lib.rs`; gwk-tui | stale pages, two operators, lost answers |
| Workspace arrangement | gwk-tui `workspace/`, gridwork `tui.rs` | plans against rows others edit |

`PROJECT.json` lists every part with its status, and each hazard at its line.

## 2. Modules

| Module | Models | Checked by run |
| --- | --- | --- |
| `EventLog` | the `EventStore` trait of gwk-domain `port.rs`: the abstract specification | store |
| `EventStore` | appends, readers, processes and their locks; implements `EventLog` | store |
| `Submit`, `Fsm` | a submission as one action, with the tables it writes; implements `EventLog`; the four state machines | commands |
| `TtlSweep` | both arms of the sweep, each read and submission a step | commands |
| `Originate` | host transcript records turned into commands | commands |
| `Context`, `Skill` | compiler, verifier, explain and compare, the records' store; the front-matter scanner and bundles | commands |
| `PtyDelivery` | kernel and host composed over their frames: claim, dispatch, acknowledge, settle, reconcile | pty_delivery, dispatch |
| `HostStarts` | session starts, the spawn, its settlement and shutdown | dispatch |
| `PtyHub` | a screen from the child to a pane, or a raw stream to its client | terminals |
| `Terminal` | the grid's cells, the recording, the wire frames and the kernel's mirror | terminals |
| `Layout`, `Workspace` | the object model and its solver; one workbench against the kernel's rows | terminals |
| `Subscription` | streams and the connection they share | streams |
| `Connection` | one connection end to end, for every kind of client | streams |
| `SocketPath` | the socket file under two daemons | streams |
| `BlobStore` | uploads, pins, sweep, shred, rewrap, context puts | durable |
| `Recovery` | log, projections and checkpoints across restarts | durable |
| `Steps`, `Migrate` | the step registry and grants; init, migrate and discard beside the daemon | durable |
| `Figures` | SQL figures of a driving window, against a definition over instants | durable |
| `Console` | one operator's shell, queue, modals and commands | workbench |
| `Board`, `BoardFeed` | the board as a function of its pages; pages arriving | workbench |
| `Estate`, `Pages` | the hall's districts; five paged readers while the kernel writes | workbench |
| `ConfigForm`, `ConfigLens` | the TOML form; the git work tree under several consoles | workbench |
| `*Proofs` | TLAPS proofs about `EventStore`, `Submit`, `PtyDelivery`, `Subscription`, `BlobStore`, `Recovery`, `TtlSweep`, `SocketPath` | |
| `MC*` | instances for TLC | |

How they fit. `EventLog` is what the rest relies on: `EventStore` shows that
processes, transactions and failures implement it, and the modules above the
store treat a commit as one step. `Submit` writes the delivery rows
`PtyDelivery` and `HostStarts` start from, and moves the leases and attempts
`TtlSweep` moves from outside; `Fsm` is shared by both. `Recovery` uses the blob
store as a set of readable records, which is what `BlobStore` promises of a
committed blob. `Terminal` has the cells of the screens whose protocol is
`PtyHub`. `Console` renders the rows `Board` computes from pages that `Pages`
shows to be put together honestly.

An MC module extends the component with the largest state space and takes the
others of its run with INSTANCE. The variable `which` chooses the machine of a
behaviour in `MCInit`, so one run checks several machines side by side; they do
not interact there. A variable that never changes (`env`, `menu`, `limits`,
`setting`, `mode`) holds the environment of a behaviour: which failures may
happen, which commands are presented, the bounds.

Definitions keep the source's names. A definition whose comment starts with
"Mutant:", "Would" or "As if" is a plausible bug, used only to show that a
property can fail.

## 3. State, actions and code

**EventStore.** `event` is the table, `writer` the singleton row (epoch, fence,
next_seq), `rowLock` the `FOR UPDATE` on it, `session` the advisory lock,
`kernel[k]` a process and `task[t]` an append in flight with what its
transaction read. `admit`, `lock_writer`, `append_locked`, `Commit` are the
steps of `append`; `append_locked` contains the fence check, the replay lookup,
the compare-and-swap and the insert. Readers see committed rows only. Lost
sessions, failed transactions, lost commit answers and crashes are actions.

**Submit.** State: log, rows per aggregate, receipts, delivery rows, the clock.
`try_submit` is one action with the outcomes of the code as disjuncts: replay,
refusal, page (receipt and item commit, the command does not), PTY refusal with
a receipt, and application, each with its guards in the code's order.
Transactions are serialised by the writer row, so one action is what other
submissions can see. Validation that looks at single fields is left out.

**TtlSweep.** `sweep` holds where the pass is and the rows it has read with
their versions; the holders' commands interleave with every step. Ages and TTLs
are counted in ticks.

**Originate.** One record at a time, one or two commands each, under keys that
are functions of their content; a restart begins again at any earlier record.

**Context, Skill.** `compile` and `verify` are operators; the verifier is
translated from its own crate, so their agreement is checked, not assumed.
Digests are their preimages. The store's records are actions of racing and
repeating callers of two projects, whose idempotency keys are their own.
`Skill` renders a document tree in the spellings YAML allows
and runs the line scanner over the spelling.

**PtyDelivery.** Per delivery the row (state, claim, lease, lifetime); per
request the point `deliver_submission` has reached; per connection the kernel's
side, its reader and the two halves of its hangup; the host with its session
queue, the window of delivered commands and its publisher. Every statement is a
step. Claims are numbered, a claim's expiry and an event's ageing are actions.

**HostStarts.** The row of each start, the start managers, both ends of each
connection, the host's task, the applied-starts window, the registry with its
lock, each session's thread and publisher, and the process's shutdown. `main`
goes through starting the declared sessions, taking their attachers, serving,
stopping and draining; it can fail on the way, where the code returns early.

**PtyHub.** The session task with its revisions, the publisher, the hub's
session with its retained batches, the attachment and the task that serves it,
the consumer's queues and socket, and the console's mirror of the pane. A
snapshot may be refused because the screen is past the byte budget, which is a
choice here: the cells do not carry their serialized size. `hist` is history: the
screen at each revision.

**Terminal.** Screens of cells with wide glyphs, clusters and styles; one action
per chunk, resize, respawn and publish. The frames' interning and the strict
decode are operators.

**Layout, Workspace.** The solver is exact over rational weights (integers in
units of `WEIGHT_UNIT`). A console handler is a list of requests still to send,
one per step, so other clients come between two of them.

**Subscription.** Per consumer the task `run` and what the client has; per
connection the two queues, the frame in the writer and whether the client
reads. A notification travels separately from its append. An oversized page is
cut to any non-empty prefix.

**Connection.** The client's call, both directions of the socket, the kernel's
reader and its three queues; frames are their kind, size and call number. A
delivery is refused at once or waits for its host (`deliver`, `Delivered`), and
the connection reads nothing meanwhile.

**SocketPath.** The file at the path, who listens on it, the lock, and per
daemon its step and the file it last looked at.

**BlobStore.** A sealing has a number; a row opens the container of its own
sealing and no other. Each statement, rename and unlink is a step. A commit of
bytes that are stored already is a hit, or is refused when they are of another
domain or media type.

**Recovery.** Events are named by fresh numbers, a hash is the set of rows it is
of. `AppendSnapshot`/`AppendCommit` and `StopSnapshot`/`StopCommit` are the two
halves (blob, transaction) of a checkpoint. A blob is a row and a container;
`Sweep` deletes the rows no committed checkpoint names, `Unlink` removes their
containers later, and both fall anywhere, also between those halves.

**Steps, Migrate.** A contract is a number standing for its digest. Each verb is
a sequence of statements and may be killed between any two; a lock's session may
die under its holder. `Layouts` says how the projection rows of each contract
read. A daemon of either binary starts on whatever the database is: no start
compares contracts; beside its privileges it needs rows that parse and no
checkpoint at the end of the log that contradicts them.

**Console, Board, BoardFeed, Estate, Pages.** The console's handlers are
actions; its pages are as old as their last read. The board and the hall are
functions of the rows they were given, and the properties compare them with the
rows. A page is answered by two statements, watermark and rows, with writers in
between.

**ConfigForm, ConfigLens.** A document is a sequence of tokens; the form's spans
are computed as the scanner does. The lens has the work tree, the index, the
history, the lock and each console's edit, with plain git beside them.

## 4. Runs and bounds

| Run | Instance | Shows |
| --- | --- | --- |
| `store` | two modes: two appends over five batches that retry, race a version, reuse a key and are malformed, with a reader of one-row pages; two processes that take over from one another with two appends of one keyed request and fence grants | a key lands once, a cursor never skips, acknowledged rows stay, only the current epoch and token land, the store implements the port, every append is answered |
| `commands` | seven menus of conflicting commands, each in every order and any number of times, versions to 4; one lease and two attempts under the sweep; four transcript records with two restarts; orders of three candidates, scripts of record writers, skill documents | every event was admissible, receipts are truthful, rows follow the log, the sweep acts on evidence that still holds and leaves no silent attempt, a transcript lands in order, compiler and verifier agree |
| `pty_delivery` | one command with two racing clients, expiring claims, restarts, broken connections, failing statements; two commands of one lifetime over a full window | effects at most once and in order, truthful rows and answers, final settlements, evidence kept |
| `dispatch` | one request with one fault; eight settings of starts, declarations and faults over a window of one and a registry of two | every start is accounted for by at most one process, every dispatched command and start concludes |
| `terminals` | queues and windows of one; screens of up to four cells; three arrangements under two failing answers | a mirror shows a screen the child had, or was told to start over; recording, wire and mirror agree on the cells; the arrangement is the kernel's or marked stale |
| `streams` | two consumers on one connection with queues of one, one consumer cut off three times; seven kinds of client, two calls each; two daemons, two lost locks, two failures | no gap, no blind wait, both ends in step, a serving daemon is reachable, nobody waits for good |
| `durable` | one content, two uploaders, three sealings, two crashes; three events, three starts, two damages; two operators, three verbs, four contracts; three sessions | stored blobs open, recovery's verdicts are true, the record matches the schema, figures match their definition |
| `workbench` | five plans of one console beside another client; nine feeds; documents of three statements; two consoles over one repository; five paged readers | confirmed actions act on what was shown, views account for their rows, edits replace what was seen |
| `pending_outlives_connection`, `twin_commit`, `attention_only_restart`, `swept_checkpoint` | the smallest instance | expected violations, section 6 |

Why the bounds are enough for the cases meant: a race here needs two actors, so
there are two of each racing kind; a retry needs a first and a second attempt; a
ladder needs one good and one rejected rung; a window, batch or queue of depth
one is full with one entry. Crashes and other faults are bounded by one or two
because each hazard listed needs one failure, and a second only while handling
the first. The theorems of section 7 do not depend on bounds.

`CHECK_DEADLOCK FALSE` is used where a bounded environment really may stop: all
uploads done, all starts used, an operator who has left. The store's run checks
deadlock.

## 5. Fairness

The environment's failures and the clients' wishes are never fair.

- `EventStore`: an append's own steps, the probe and the shutdown of a process
  are weakly fair; taking the row lock is strongly fair, because PostgreSQL
  grants it in queue order.
- `TtlSweep`: time passes, and the loop comes back after every interval and
  every failed pass (`run` logs and continues).
- `PtyDelivery`, `HostStarts`: the daemon's and the host's tasks run and their
  timers fire; the publisher and the start manager reconnect with a bounded
  backoff. Clients need not retry.
- `PtyHub`: the publisher, the hub's attachment task, the writer and the
  console's event loop run; nothing is assumed of the child.
- `Subscription`, `Connection`: tasks run and the poll timer fires; the client
  comes back to its socket (strong for `Write`, which needs it to be reading)
  and to a stream it was told is closed.
- `SocketPath`: each daemon's steps are weakly fair and a service manager
  starts it again.

## 6. Where code and comments disagree

Four disagreements are runs that must fail; `PROJECT.json` quotes the comment.

- `twin_commit`: two overlapping commits of the same bytes leave the row of one
  sealing with the container of the other, which never opens.
- `attention_only_restart`: a log whose events only raised attention items is
  taken for cold tables at start and its replay collides with the items.
- `pending_outlives_connection`: a dispatch between the two lock sections of a
  hangup leaves a pending delivery that answers every replay "overloaded".
- `swept_checkpoint`: a sweep between the blob of a checkpoint's records and the
  transaction that names them deletes the records; the checkpoint is recorded all
  the same and fails validation at every later start.

Others met while modelling. Each is a behaviour the named module has; the
checked properties state what holds beside it.

Store and submission:

- `EventStore`: the epoch is claimed a whole boot after the lock was taken, and
  nothing asks whether it is still held; a process that lost it can supersede
  the healthy holder (`store.rs:327` says the probe cancels the superseded one).
- `EventStore`: until the first open the durable epoch is 0, a reader store's
  epoch, so its append passes (`store.rs:140`: "cannot write even by mistake").
- `Submit`: a page's item id is made of class and subject, so a page after the
  item was resolved fails on the primary key and rolls its receipt back
  (`0001_contract.sql:590`: "raisable again after someone resolves it").
- `Submit`: a paged item has no event, so a later ack or resolve of it cannot be
  replayed into empty tables (`recover.rs:25`).
- `Submit`: a message key is unique over the table, the log's per project
  (`project.rs:687`: "the same uniqueness the log already enforced").
- `TtlSweep`: a blocked attempt whose burial loses its race after the lease was
  expired is never buried (`ttl_sweep.rs:395`: "is still buried"). A lease given
  an expiry after the stale arm's read backs the attempt that is then buried
  (`ttl_sweep.rs:53`: "that NO live lease is backing").
- `Originate`: a record processed again after its node moved on re-reads the
  version and moves the node a second time (`origination.rs:208`; `envelope.rs:29`:
  "land as the SAME command rather than a second one"), and two transitions of
  one node can share a key.
- `Context`: bytes sealed under another class after a fact about them was
  recorded disagree with it: only what is sealed already is compared (gwk-kernel
  `context.rs:455`; at 439: "this is what stops them diverging").

PTY:

- `PtyDelivery`: a queued resize or stop whose answer is late is recorded as
  failed and takes effect later (`protocol.rs:1413`). A command passed over as
  abandoned can be retried and dispatched after the later one (`serve.rs:1126`:
  "a delivery that will never happen"). A busy session is taken for ended while
  its publisher reconnects (`publish.rs:326`). When the statement that abandons
  a delivery fails, the host's reconnects are refused until someone retries or
  the daemon restarts (`docs/protocol.md:80`).
- `PtyDelivery`: a delivery dispatched into a connection between the two sections
  of its hangup, whose client has gone as well, is pending until the daemon
  restarts; `CommandsConclude` leaves that row out (`docs/protocol.md:80`).
- `PtyHub`: when the snapshot of a pane that lost its mirror is refused on a live
  stream, nothing asks again: the pane is blank until the session's next frame
  (`tui.rs:928`). `PanesSettle` allows that.
- `HostStarts`: a spawn that answers after the 30 s deadline is recorded as
  failed and runs. Rows stay "running" over a restart of the daemon. When a
  declared session has vanished before its attacher is taken, `main` stops the
  sessions it finds and returns without raising the stop flag and without the
  drain, so a start that comes to the registry after that is not stopped
  (`main.rs:127`); `StopLeavesNoChild` excepts those children.
- `Terminal`: `split_clusters` can exceed `MAX_GLYPH_BYTES`; the kernel then
  refuses the publish and the publisher ends (`gwk-pty-host` `wire.rs:278`,
  `publish.rs:290`; `protocol.rs:1008`). A refused resize with rollback reflows
  without a frame; a respawn is recorded as a resize.
- `Workspace`: a layout applied from a plan drifts from the rows' when another
  client edits in between (`runtime.rs:3`); a pane id kept over a rebuild is
  stale (`tui.rs:810`; `workspace/mod.rs:22`).

Socket and storage:

- `SocketPath`: a lock lost while starting is not watched, and the unlink after
  the second look goes by name, so it can remove a live socket
  (`listen.rs:127`). A failed quarantine or accept ends the daemon without
  drain, checkpoint or removal. A successor is refused while a daemon drains.
- `BlobStore`, with overlapping operations: sweep's unlink removes a container
  committed after its delete (`store.rs:953`); a sweep between the commit of a
  blob and the transaction that refers to it leaves a dangling reference
  (`store.rs:81`; for a checkpoint this is `swept_checkpoint`). Without
  overlap: a class claimed by a put that stored nothing
  makes sweep remove ordinary evidence with the same bytes (`context.rs:195`:
  "inert").
- `Recovery`: a checkpoint of a lost log is kept. When the restored log reaches
  its sequence, the start can call sound projections diverged, or forged rows
  that match it verified (`checkpoint.rs:623`: "two snapshots at one sequence
  are the same state").
- `Migrate`: where an operator's lock session died under a migration, a second
  operator's run of a step that only replaces is recorded too, from a base the
  database has left (`migrate.rs:464`: "asking again here is what keeps the ledger
  from recording a start this database was never at"); `LedgerIsHistory` allows a
  repeat of such a step and nothing else. An init
  killed between the contract and the backend script leaves a schema without a
  fingerprint. The probe of the delete guards only tries relations with rows.

Console:

- `Board`, `BoardFeed`: each batch moves the tail's cursor, and the rows show
  only events past the cursor, so what was delivered is not shown (`tui.rs:3187`,
  `board.rs:1141`; `board.rs:178`: "remains the requested starting point"); the
  row that counts cut pinned rows hides one more than it counts (`board.rs:3199`);
  the combined watermark skips kinds that have none.
- `Console`: "stop attempt" confirmed in the console never submits. The queue's
  first line counts the rows a filter keeps while the mark is of all rows, so
  under a filter it can say "all clear" beside a mark (`queue.rs:31`: "the count
  and the `!` marks always agree"); `MarksAgree` is an equivalence only without a
  filter.
- `Pages`: a page's watermark and rows are two statements, so a summary can join
  different moments under one watermark (`serve.rs:498`; `lib.rs:611`: "rather
  than silently joining different moments"). The flat read shows the newest of its
  watermarks, so `StampIsAFloor` leaves it out. The hall retries drift, and gives
  up after `SNAPSHOT_ATTEMPTS` under steady writes; it does not retry a row
  without its event, such as an item raised beside the log or between the
  statements of its last page. Giving up ends the console (`estate.rs:434`,
  `tui.rs:538`, `tui.rs:858`). `RefusalsAreReal` says that there was such a write.
- `ConfigLens`: every divergence shares one item id, so a second is not raised
  after the first was resolved (`tui.rs:588`, `config.rs:668`); the evidence can
  name another commit than the one made (`config.rs:824`); when reading the head
  fails after the commit, the old contents are restored over it.

## 7. What is proved

Every theorem is for all values of the constants: any number of processes,
clients, contents, events, consumers, any queue depth and window, any
environment. Each proof module states the assumption on the constants it needs;
`StoreAssumption`, `DeliveryAssumption`, `SubscriptionAssumption` and the others
say only that the constants have their types and that markers such as `NoKey` or
`Nobody` are not ordinary values. TLC evaluates each assumption on the instance
it checks.

| Theorem | States |
| --- | --- |
| `StoreTypes` | `EventStore` keeps its types |
| `SequenceIsCommitOrder` | no two rows share a sequence, none reaches next_seq |
| `HistoriesContiguous` | an aggregate's versions are 1..n in sequence order |
| `ExactlyOnce` | a key names one event per aggregate and per project |
| `CursorNeverSkips` | a paging reader has exactly the rows up to its cursor |
| `AnswersAreDurable` | acknowledged rows are committed; equal requests, equal rows |
| `SingleWriter` | rows land only under the current epoch and token |
| `StoreImplementsPort` | the store implements `EventLog` |
| `SubmitJustified` | read off the log alone, every event was admissible when it landed |
| `SubmitAnswers` | receipts are true, a key answers for one request, a page reaches the operator |
| `SubmitRows` | versions, cursors, deliveries and the workspace forest are what the log implies |
| `SubmitImplementsPort` | what lands is a behaviour of `EventLog` |
| `AppliedOnce` | the session takes a PTY command at most once |
| `AnswersTrue` | rows and answers of deliveries tell the truth |
| `EvidenceSurvives` | what the session confirmed is in the host's window or in the row |
| `SettledStays` | a settled delivery changes only from indeterminate to delivered |
| `ConsumersNeverMiss` | no gap, no batch before its answer, no sleep over an event the stream was told of |
| `StoreKeepsBlobs` | bytes match their address and nothing is sealed before it has a class; without overlapping operations, what was committed and is referred to is there and opens |
| `StoreRemovesLawfully` | a shredded blob stays shredded, a pinned one stays |
| `RecoveryTruthful` | verdicts of a start or rebuild are true whatever is swept; checkpoints can be read where no sweep overlapped their taking |
| `BarrierKept` | no append leaves the newest checkpoint an interval behind |
| `EvidenceUsed` | a start never says "unverified" beside readable evidence of its watermark |
| `SweepActsOnEvidence` | the sweep expires and buries only on evidence that still holds |
| `ServingIsReachable` | a daemon that serves under the lock is the one clients reach |

The invariants are not inductive as stated: each rests on something checked some
steps earlier, which others might have changed since. The inductive invariant
`IInv` of each proof module says why they could not. Its preservation is proved
with a lemma per action, or per action and conjunct.

- **EventStore.** `LockHeld`: a transaction past `lock_writer` holds the row
  lock. `Fresh`: what the holder read of the writer row is what the row says.
  `Checked`: what `append_locked` decided still holds of the committed log.
  `Attached`: such a transaction belongs to a process that is up. In the
  refinement a commit that adds rows is the port's append, a read is its read,
  the rest stutters.
- **Submit.** Any menus of commands, well formed as the protocol's types make
  them (`SubmitAssumption`), in any order and as often as one likes. All four
  theorems share `LogInv`: genesis and activation open the log and nothing else
  is of the kernel (`Opening`); versions count up within an aggregate, an
  aggregate has one project, a project uses a key once (`Numbered`). For
  `SubmitJustified`, `GrantsLive`: a live grant's row is an event of the log that
  no later event revokes, so the row `matching_grant` read is evidence in the
  log. For `SubmitAnswers`, `DeliveryInv` ties a delivery row to its event and so
  the bytes of a retry to the one request; `PageInv` keeps the bodies of
  attention items, so that the item found by topic and subject is the page's.
  For `SubmitRows`, `VersionInv` and `CursorInv`, and `TreeInv`: no set of nodes
  is closed under "parent of". That says that every node reaches a root without
  speaking of paths, so no induction is needed: a move keeps it since the nodes
  above the new parent do not hold the moved one (`WORKSPACE_NODE_ANCESTOR`).
  In the refinement a landing and genesis are the port's append, everything
  else stutters.
- **PtyDelivery.** `ReqOK` ties each point of a request to the claim it holds;
  `Sole`: at most one request is past the claim of a delivery, with a claim
  number of its own. From these a claim is let go only by its holder and only
  when nothing was dispatched under it, hence a delivery is dispatched at most
  once. `DownOK` then follows that one frame: on the wire, or taken by the
  session, or lost, and never in two of these places. `Denied`: the frame of a
  command that was refused is not on the wire and, for input, not taken. `UpOK`, `ReaderOK`,
  `SettledOK`: an acknowledgement that says "applied" is of an effect,
  wherever it travels, and stays true since effects are never undone. `HostOK`
  relates the host's connection to its point, which the two halves of a
  reconciliation need.
- **Subscription.** `OneRun`: what a consumer has is one run of events from its
  origin; `Told`: every cursor it was or may be told is one it has reached;
  `BatchesFit`, `StreamsFit`, `ResponsesFit` and
  `WriterFits` place each batch of the queues and of the writer directly after
  what precedes it; `Awake`: where no notification was lost, a stream that waits
  has read everything or is about to be woken. The lemmas are about appending to and dropping
  from a queue whose elements follow one another.
- **BlobStore.** `ShredUnderWay` and `CommitKnows` say what a running shred and
  a running commit may rely on; `OneAtATime` is the serialisation an
  environment without overlap gives. Readability is claimed where operations on
  one content take turns, removal rules also where they overlap.
- **Recovery.** `Faithful`: rows that were not forged are those of the log;
  `Anchored`: unless the log was restored, a checkpoint is of what the log
  derives up to its sequence; `InFlight`: the records of a checkpoint under way
  are of the rows as its transaction will leave them; `RecordsStored`: they and
  those of every checkpoint are stored, unless a sweep came between a blob and
  its row or unlinked what was stored again.
- **TtlSweep.** `LeasesAsRead`, `AttemptsAsRead`: a row whose version is still
  the one read is still the row read, so the compare-and-swap carries the
  evidence over.
- **SocketPath.** Unless a daemon strayed from its lock: `OneStarts`, a daemon
  that is starting holds the lock; `PathIsTheirs`, the file at the path of a
  daemon that has bound is its own; `NothingInTheWay`, nobody has bound while
  another is still removing a stale socket.

`RecoveryTruthful`, `BarrierKept`, `EvidenceUsed`, `SweepActsOnEvidence` and
`ServingIsReachable` are about the components' own specifications; the runs check
the same definitions through the module that composes them.
`SubmitImplementsPort` is proved only; the store's refinement of the same port is
also a run.

## 8. What is only model-checked

- Liveness (`TakeoverEnds`, `SilentAttemptsBuried`, `CommandsConclude`,
  `PanesSettle`, `NobodyWaitsForGood`): fairness and ENABLED are outside the
  prover's reach.
- `AppliedInOrder` is not a theorem of `PtyDelivery` for every environment.
  Where a claim may expire under a slow attempt and be quarantined, its holder
  can still dispatch after a later command was. The property is checked with two
  commands of one lifetime whose claims do not expire.
- What a recursive definition computes for every input: the compiler and the
  verifier, the scanner, the layout solver, the board, the form. Induction over
  data is outside the prover's reach, so these are checked over bounded inputs.
- `HostStarts`, `PtyHub`, `Connection`, `Terminal`, `Originate`,
  `Estate`, `Pages`: their invariants are provable in principle and not proved
  here. `Steps`, `Migrate`, `Console`, `ConfigLens` likewise, after their
  recursive operators.

## 9. What is not modelled

Screen layout beyond the board's rows, text widths, colours, argument parsing,
logging; the three engine adapters, which translate a stream line by line and
whose output enters through `Submit`; the certification store, the parity
runners and the contract generator, which are tooling; SHA-256, AEAD and the
container format beyond "which sealing opens"; escape sequences beyond what they
do to the grid; a child that takes only part of an input (gwk-pty
`session.rs:128`), so "applied" is of the whole input or of nothing; the number of
workspace rows past which a console refuses the arrangement (`tui.rs:2746`);
PostgreSQL inside one statement, so the overlap of a sweep's
delete with a pin's insert within the database is not covered.

Some library functions have no caller in the source (`pull_size`,
`HistoryView`, `catch_up`, `encode` of gwk-pty, `originate_record` of
gwk-pty-host); `originate_record` is modelled in `Originate` by what its callees
would do.

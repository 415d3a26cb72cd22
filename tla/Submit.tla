-------------------------------- MODULE Submit --------------------------------
(***************************************************************************)
(* Command submission (gwk-kernel submit.rs, epoch.rs, authority.rs) and   *)
(* the projection tables it writes (project.rs).                           *)
(*                                                                         *)
(* try_submit takes the writer row lock before it reads anything and       *)
(* commits or rolls back before it answers, so one submission is one       *)
(* action: EventStore shows that appends under that lock are serial, and a *)
(* crash or a lost answer leaves nothing but the committed or the old      *)
(* state.  Callers may present any command of the behaviour's menu at any   *)
(* time and as often as they like, which is every retry, reordering and    *)
(* duplication.  A refusal that writes nothing is no step at all; three    *)
(* kinds of refusal commit rows, and they are actions.                     *)
(*                                                                         *)
(* A command is an envelope (project, actor, key, command id `cid', issue  *)
(* time, pinned expected version, bytes of the input carrier) around a     *)
(* payload: kind, id, the body's expected version, target state `to', the  *)
(* rows its foreign keys name, and the fields `arg' that some rule reads.  *)
(***************************************************************************)
EXTENDS Fsm, Sequences, Integers

CONSTANTS
    Menus,       \* named sets of commands; callers of one behaviour present one set
    MaxNow,      \* bound: ticks of the database clock, for each menu
    NoKey,       \* a row that no key inserted
    NoPin,       \* an envelope without expected_version
    NoBytes,     \* no, or an invalid, input carrier
    NoScope,     \* a grant over its whole class
    Never,       \* a grant that does not expire
    NoParent,    \* a workspace node at the root
    System, GenesisKey, Singleton,   \* the genesis event's project, key and aggregate id
    MaxVersion   \* u32::MAX, the ceiling of aggregate_version

-----------------------------------------------------------------------------
(***************************************************************************)
(* The projection tables and the one function that writes them, on the     *)
(* live path and on a replay alike (gwk-kernel project.rs, apply_event),   *)
(* with the constraints of schema/0001_contract.sql that can refuse it.    *)
(*                                                                         *)
(* A table is described by what each command kind does to its row: insert  *)
(* it, move its state to the one the command names, stamp a fixed state,   *)
(* touch it (columns the model does not tell apart) or remove it.          *)
(* `versioned' tables carry the event's aggregate version on the row.      *)
(*                                                                         *)
(* A row is its version, its state, the idempotency key that inserted it   *)
(* and the columns other rules read (`body').  `rows' is a function from   *)
(* aggregates, <<type, id>>, to rows.                                      *)
(***************************************************************************)
Table(versioned, initial, insert, move, stamp, touch, remove) ==
    [versioned |-> versioned, initial |-> initial, insert |-> insert, move |-> move,
     stamp |-> stamp, touch |-> touch, remove |-> remove]

task == Table(TRUE, "submitted", {"create_task"}, {"transition_task"}, {}, {}, {})

attempt ==
    Table(TRUE, "queued", {"create_attempt"}, {"transition_attempt"}, {},
          {"update_budget", "record_attempt_runtime", "record_attempt_outcome",
           "record_round", "record_finding"}, {})

engine_session ==
    Table(FALSE, "started", {"open_engine_session"}, {},
          {<<"close_engine_session", "ended">>}, {}, {})

lease ==
    Table(TRUE, "held", {"acquire_lease"}, {},
          {<<"release_lease", "released">>, <<"expire_lease", "expired">>},
          {"renew_lease"}, {})

worktree ==
    Table(FALSE, "registered", {"register_worktree"}, {},
          {<<"release_worktree", "released">>}, {"update_worktree"}, {})

dispatch_node ==
    Table(TRUE, "registered", {"register_dispatch_node"},
          {"transition_dispatch_node"}, {}, {}, {})

message == Table(TRUE, "accepted", {"send_message"}, {"transition_message"}, {}, {}, {})

command ==
    Table(TRUE, "issued", {"issue_command"}, {"transition_command"},
          {<<"record_command_outcome", "verification_complete">>}, {}, {})

gate == Table(TRUE, "pending", {"open_gate"}, {"decide_gate"}, {}, {}, {})

evidence == Table(FALSE, "recorded", {"record_evidence"}, {}, {}, {}, {})

cost_entry == Table(FALSE, "recorded", {"record_cost_entry"}, {}, {}, {}, {})

authority_grant ==
    Table(FALSE, "live", {"grant_authority"}, {}, {<<"revoke_authority", "revoked">>}, {}, {})

attention_item ==
    Table(FALSE, "open", {"raise_attention"}, {}, {<<"resolve_attention", "resolved">>},
          {"ack_attention", "mute_attention", "unmute_attention"}, {})

workspace_node ==
    Table(TRUE, "placed", {"create_workspace_node"}, {}, {},
          {"move_workspace_node", "rebind_workspace_pane"}, {"close_workspace_node"})

workflow_run ==
    Table(TRUE, "running", {"open_workflow_run"}, {"close_workflow_run"}, {},
          {"advance_workflow_run"}, {})

pty_session ==
    Table(TRUE, "running", {"open_pty_session"}, {}, {<<"close_pty_session", "closed">>},
          {"record_pty_attach", "record_pty_detach", "send_pty_input",
           "resize_pty_session", "stop_pty_session"}, {})

pty_session_template ==
    Table(TRUE, "active", {"declare_pty_session_template"}, {},
          {<<"retire_pty_session_template", "retired">>}, {}, {})

ingested_record == Table(FALSE, "ingested", {"ingest_record"}, {}, {}, {}, {})

Tables ==
    [task |-> task, attempt |-> attempt, engine_session |-> engine_session, lease |-> lease,
     worktree |-> worktree, dispatch_node |-> dispatch_node, message |-> message,
     command |-> command, gate |-> gate, evidence |-> evidence, cost_entry |-> cost_entry,
     authority_grant |-> authority_grant, attention_item |-> attention_item,
     workspace_node |-> workspace_node, workflow_run |-> workflow_run,
     pty_session |-> pty_session, pty_session_template |-> pty_session_template,
     ingested_record |-> ingested_record]

\* Aggregates with no row of their own, and the kind that upserts its row.
Rowless == {"kernel", "pty_session_start"}
UpsertKind == "write_orchestrator_checkpoint"

KindsOf(t) ==
    Tables[t].insert \cup Tables[t].move \cup Tables[t].touch \cup Tables[t].remove
        \cup {s[1] : s \in Tables[t].stamp}

Kinds ==
    (UNION {KindsOf(t) : t \in DOMAIN Tables})
        \cup {UpsertKind, "activate_kernel", "request_pty_session_start"}

Inserts == UNION {Tables[t].insert : t \in DOMAIN Tables}
Removes == UNION {Tables[t].remove : t \in DOMAIN Tables}

TableOf[kind \in UNION {KindsOf(t) : t \in DOMAIN Tables}] ==
    CHOOSE t \in DOMAIN Tables : kind \in KindsOf(t)

aggregate_type(kind) ==
    CASE kind = UpsertKind -> "orchestrator_checkpoint"
      [] kind = "activate_kernel" -> "kernel"
      [] kind = "request_pty_session_start" -> "pty_session_start"
      [] OTHER -> TableOf[kind]

NoBody == [none |-> TRUE]
Unkeyed(state, body) == [version |-> 0, state |-> state, key |-> NoKey, body |-> body]
NoRow == Unkeyed("absent", NoBody)
Present(rows, a) == rows[a].state # "absent"
-----------------------------------------------------------------------------
(***************************************************************************)
(* The constraints of the schema.                                          *)
(***************************************************************************)

\* Foreign keys: every row the body names is there.
References(rows, e) == \A a \in e.payload.refs : Present(rows, a)

\* gwk.message.idempotency_key and gwk.command.idempotency_key are UNIQUE over
\* the whole table, whatever the project.
KeyUnique(rows, e) ==
    e.aggregate[1] \in {"message", "command"} =>
        \A a \in DOMAIN rows : a[1] = e.aggregate[1] => rows[a].key # e.key

\* attention_item_unresolved_dedup: the open items that hold a slot.
unresolved_attention(rows, topic, subject) ==
    {a \in DOMAIN rows :
        /\ a[1] = "attention_item" /\ rows[a].state = "open"
        /\ rows[a].body.topic = topic /\ rows[a].body.subject = subject}

\* A workspace node sits where its kind may (assert_workspace_parentage).
Parentage(rows, e) ==
    e.payload.kind \in {"create_workspace_node", "move_workspace_node"} =>
        LET node == IF e.payload.kind = "create_workspace_node" THEN e.payload.arg.node
                    ELSE rows[e.aggregate].body.node
            parent == <<"workspace_node", e.payload.arg.parent>>
        IN  CASE node = "workspace" -> TRUE
              [] node = "tab" -> rows[parent].body.node = "workspace"
              [] node = "pane" -> rows[parent].body.node \in {"tab", "pane"}

\* A removed row is nobody's parent (the self-reference of workspace_node).
Unreferenced(rows, a) ==
    \A b \in DOMAIN rows : b[1] = "workspace_node" /\ Present(rows, b)
        => rows[b].body.parent # a[2]
-----------------------------------------------------------------------------
(***************************************************************************)
(* apply_event.                                                            *)
(***************************************************************************)
StateAfter(t, kind, to, s) ==
    CASE kind \in Tables[t].move -> to
      [] \E p \in Tables[t].stamp : p[1] = kind ->
            (CHOOSE p \in Tables[t].stamp : p[1] = kind)[2]
      [] OTHER -> s

\* The row can be written: no constraint refuses it and require_one finds it.
Projectable(rows, e) ==
    LET kind == e.payload.kind
        a == e.aggregate
    IN  \/ a[1] \in Rowless \cup {"orchestrator_checkpoint"}
        \/ /\ kind \in Inserts
           /\ ~Present(rows, a)
           /\ References(rows, e) /\ KeyUnique(rows, e) /\ Parentage(rows, e)
           /\ kind = "raise_attention" =>
                unresolved_attention(rows, e.payload.arg.topic, e.payload.arg.subject) = {}
        \/ /\ a[1] \in DOMAIN Tables /\ kind \notin Inserts
           /\ Present(rows, a)
           /\ Tables[a[1]].versioned => e.version = rows[a].version + 1
           /\ kind = "resolve_attention" => rows[a].state = "open"
           /\ Parentage(rows, e)
           /\ kind \in Removes => Unreferenced(rows, a)

RowVersion(t, v) == IF Tables[t].versioned THEN v ELSE 0

\* Mutant: a move does not advance its row.
MoveKeepsVersion(r, e) ==
    LET kind == e.payload.kind
        t == e.aggregate[1]
    IN  CASE kind = UpsertKind -> Unkeyed("latest", e.payload.arg)
          [] kind \in Inserts ->
                [version |-> RowVersion(t, e.version), state |-> Tables[t].initial,
                 key |-> e.key, body |-> e.payload.arg]
          [] kind \in Removes -> NoRow
          [] kind = "move_workspace_node" ->
                [r EXCEPT !.body = [r.body EXCEPT !.parent = e.payload.arg.parent]]
          [] OTHER ->
                [r EXCEPT !.version = RowVersion(t, e.version),
                          !.state = StateAfter(t, kind, e.payload.to, r.state)]

\* The row an event leaves where it finds r; its version is the event's.
RowAfter(r, e) ==
    LET kind == e.payload.kind
        t == e.aggregate[1]
    IN  CASE kind = UpsertKind -> Unkeyed("latest", e.payload.arg)
          [] kind \in Inserts ->
                [version |-> RowVersion(t, e.version), state |-> Tables[t].initial,
                 key |-> e.key, body |-> e.payload.arg]
          [] kind \in Removes -> NoRow
          [] kind = "move_workspace_node" ->
                [r EXCEPT !.version = e.version,
                          !.body = [r.body EXCEPT !.parent = e.payload.arg.parent]]
          [] OTHER ->
                [r EXCEPT !.version = RowVersion(t, e.version),
                          !.state = StateAfter(t, kind, e.payload.to, r.state)]

\* What apply_event leaves behind.
apply_event(rows, e) ==
    IF e.aggregate[1] \in Rowless THEN rows
    ELSE [rows EXCEPT ![e.aggregate] = RowAfter(rows[e.aggregate], e)]
-----------------------------------------------------------------------------
VARIABLES
    log,       \* gwk.event, in commit order
    rows,      \* the projection tables
    receipt,   \* gwk.receipt
    delivery,  \* gwk_internal.pty_delivery, as submission writes it
    now,       \* the database clock
    menu       \* which commands callers present, never changed

vars == <<log, rows, receipt, delivery, now>>

KernelAggregate == <<"kernel", Singleton>>
Node(id) == <<"workspace_node", id>>
Events == {log[i] : i \in DOMAIN log}

\* The ids the caller does not supply: an ingested record and a start request.
route_of(c) ==
    LET p == c.payload IN
    <<aggregate_type(p.kind),
      CASE p.kind = "activate_kernel" -> Singleton
        [] p.kind = "ingest_record" -> <<c.project, c.key>>
        [] p.kind = "request_pty_session_start" -> <<p.id, c.cid>>
        [] OTHER -> p.id>>

\* The highest version an aggregate has reached, 0 when it has no events.
current_aggregate_version(a) ==
    LET V == {0} \cup {log[i].version : i \in {j \in DOMAIN log : log[j].aggregate = a}}
    IN  CHOOSE v \in V : \A w \in V : w <= v

epoch_of ==
    LET v == current_aggregate_version(KernelAggregate)
    IN  IF v = 0 THEN "none" ELSE IF v = 1 THEN "sealed" ELSE "active"

class_of(p) ==
    CASE p.kind = "issue_command" -> "stop"
      [] p.kind = "record_evidence" /\ p.arg.topic = "config_change" -> "config_change"
      [] p.kind = "send_pty_input" -> "pty_input"
      [] p.kind \in {"resize_pty_session", "stop_pty_session"} -> "pty_control"
      [] p.kind = "request_pty_session_start" -> "pty_start"
      [] p.kind \in {"declare_pty_session_template", "retire_pty_session_template"} ->
            "pty_template"
      [] OTHER -> "unclassified"

is_pty_action(class) == class \in {"pty_input", "pty_control", "pty_start", "pty_template"}

\* The attention item a page raises: its id is its class and its subject.
PageId(class, a) == <<"attention_item", <<class, a>>>>

AggregatesOf ==
    [n \in DOMAIN Menus |->
        {KernelAggregate} \cup {route_of(c) : c \in Menus[n]}
            \cup (UNION {c.payload.refs : c \in Menus[n]})
            \cup {PageId(class_of(c.payload), route_of(c)) : c \in Menus[n]}]
Aggregates == DOMAIN rows

ReceiptedPty ==
    {"send_pty_input", "resize_pty_session", "stop_pty_session", "request_pty_session_start"}

\* What the types of the protocol say of any command: a known kind, a body with
\* the fields of its kind, bytes in the input carrier only, and foreign keys that
\* name rows, a node's parent among them.
WellFormed(c) ==
    LET p == c.payload IN
    /\ p.kind \in Kinds
    /\ p.to # "absent"
    /\ p.kind # "send_pty_input" => c.bytes = NoBytes
    /\ \A a \in p.refs : a = <<a[1], a[2]>>
    /\ p.kind = UpsertKind => p.arg.seq \in Nat
    /\ p.kind = "raise_attention" => p.arg = [topic |-> p.arg.topic, subject |-> p.arg.subject]
    /\ p.kind = "create_workspace_node" =>
        /\ p.arg = [node |-> p.arg.node, parent |-> p.arg.parent]
        /\ p.id # NoParent
        /\ p.arg.parent # NoParent => Node(p.arg.parent) \in p.refs
    /\ p.kind = "move_workspace_node" =>
        p.arg.parent # NoParent /\ Node(p.arg.parent) \in p.refs

ASSUME SubmitAssumption == \A n \in DOMAIN Menus : \A c \in Menus[n] : WellFormed(c)

Init ==
    /\ menu \in DOMAIN Menus
    /\ log = <<>>
    /\ rows = [a \in AggregatesOf[menu] |-> NoRow]
    /\ receipt = {}
    /\ delivery = {}
    /\ now = 0
-----------------------------------------------------------------------------
(***************************************************************************)
(* The checks before the key is looked up.                                 *)
(***************************************************************************)
check_activation(c) ==
    c.payload.kind = "activate_kernel" => c.key = c.payload.arg.cutover

check_authority_admin(c) ==
    c.payload.kind \in {"grant_authority", "revoke_authority",
                        "declare_pty_session_template", "retire_pty_session_template"}
        => c.actor.kind = "operator"

\* The sealed allowlist.
admitted(c) ==
    \/ epoch_of = "active"
    \/ epoch_of = "sealed" /\ c.payload.kind = "activate_kernel"

\* The input carrier is missing or invalid, or the envelope pins a version.
PreflightRefuses(c) ==
    c.payload.kind = "send_pty_input" /\ (c.bytes = NoBytes \/ c.pinned # NoPin)

Admissible(c) ==
    check_activation(c) /\ check_authority_admin(c) /\ admitted(c)
-----------------------------------------------------------------------------
(***************************************************************************)
(* The key.                                                                *)
(***************************************************************************)
events_for_key(c) ==
    {e \in Events : e.key = c.key /\ (e.project = c.project \/ e.aggregate = route_of(c))}

\* Mutant: the bytes of a retried input are not compared.
BindingUnchecked(c) == TRUE

\* The stored binding of a retried input is the one of the bytes it carries.
BindingMatches(c) ==
    c.payload.kind = "send_pty_input" =>
        \E d \in delivery : d.project = c.project /\ d.key = c.key /\ d.binding = c.bytes

\* prior_for_key = Replay: one stored event, and it is the same request.
Replay(c) ==
    \E e \in Events :
        /\ events_for_key(c) = {e}
        /\ e.project = c.project /\ e.aggregate = route_of(c)
        /\ e.actor = c.actor /\ e.payload = c.payload

\* The project of the aggregate's first event is the only one that may write.
check_aggregate_owner(c) ==
    \A e \in Events : e.aggregate = route_of(c) /\ e.version = 1 => e.project = c.project

\* The request is new: unused key, own or unowned aggregate, fresh command id,
\* no second cutover.
Unused(c) ==
    /\ events_for_key(c) = {}
    /\ check_aggregate_owner(c)
    /\ c.payload.kind \in ReceiptedPty => \A d \in delivery : d.cid # c.cid
    /\ ~(c.payload.kind = "activate_kernel" /\ epoch_of = "active")
-----------------------------------------------------------------------------
(***************************************************************************)
(* Authority.                                                              *)
(***************************************************************************)
\* A start is authorised against its template, everything else against its id.
AuthoritySubject(c) ==
    IF c.payload.kind = "request_pty_session_start" THEN c.payload.arg.template
    ELSE route_of(c)[2]

\* Mutant: a revoked grant still covers.
GrantIgnoringRevocation(c, class) ==
    \E a \in DOMAIN rows :
        /\ a[1] = "authority_grant" /\ Present(rows, a)
        /\ rows[a].body.class = class /\ rows[a].body.grantee = c.actor
        /\ rows[a].body.scope \in {NoScope, AuthoritySubject(c)}
        /\ rows[a].body.expires = Never
            \/ rows[a].body.expires > (IF is_pty_action(class) THEN now ELSE c.issued_at)

\* A live grant: exact scope or none, not revoked, not expired by the command's
\* issue time, or for the PTY classes by the database clock.
matching_grant(c, class) ==
    \E a \in DOMAIN rows :
        /\ a[1] = "authority_grant" /\ rows[a].state = "live"
        /\ rows[a].body.class = class /\ rows[a].body.grantee = c.actor
        /\ rows[a].body.scope \in {NoScope, AuthoritySubject(c)}
        /\ rows[a].body.expires = Never
            \/ rows[a].body.expires > (IF is_pty_action(class) THEN now ELSE c.issued_at)

\* The basis of an allowed command, or of a page.
evaluate(c) ==
    LET class == class_of(c.payload) IN
    CASE class = "unclassified" -> "none"
      [] is_pty_action(class) /\ c.actor.kind = "operator" -> "operator"
      [] is_pty_action(class) /\ c.actor.kind \notin {"operator", "orchestrator"} -> "page_kind"
      [] OTHER -> IF matching_grant(c, class) THEN "grant" ELSE "page_ungranted"

Pages(c) == evaluate(c) \in {"page_kind", "page_ungranted"}

receipt_for(c, basis, refused) ==
    [project |-> c.project, key |-> c.key, actor |-> c.actor, action |-> class_of(c.payload),
     subject |-> route_of(c), basis |-> basis, refused |-> refused, ts |-> c.issued_at,
     detail |-> IF c.payload.kind \in ReceiptedPty THEN c.payload.arg ELSE NoBody]

\* Mutant: an earlier receipt under the id is kept without being compared.
KeepReceipt(r) ==
    receipt' = IF \E q \in receipt : q.project = r.project /\ q.key = r.key
               THEN receipt ELSE receipt \cup {r}

\* Insert, or find the identical fact under the same id; a different one refuses.
write_receipt(r) ==
    /\ \A q \in receipt : q.project = r.project /\ q.key = r.key => q = r
    /\ receipt' = receipt \cup {r}
-----------------------------------------------------------------------------
(***************************************************************************)
(* decide: the version the aggregate must be at, per kind of command.      *)
(***************************************************************************)
Row(c) == rows[route_of(c)]

decide_cas(c, v) ==
    Present(rows, route_of(c)) /\ Row(c).version = c.payload.expected /\ v = Row(c).version

CasKinds ==
    {"decide_gate", "update_budget", "record_attempt_runtime", "record_attempt_outcome",
     "renew_lease", "release_lease", "expire_lease", "transition_dispatch_node"}

TakeKinds ==
    {"revoke_authority", "resolve_attention", "ack_attention", "mute_attention",
     "unmute_attention", "close_engine_session", "update_worktree", "release_worktree",
     "record_round", "record_finding", "ingest_record"}

\* The four machines: verification_complete is reached with its outcome only.
decide_transition(c, v) ==
    LET p == c.payload
        to == IF p.kind = "record_command_outcome" THEN "verification_complete" ELSE p.to
    IN  /\ Present(rows, route_of(c))
        /\ p.kind = "transition_command" => to # "verification_complete"
        /\ apply(route_of(c)[1], Row(c), to, p.expected, c.actor,
                 p.kind = "transition_attempt" /\ p.arg.receipt, MaxVersion)
        /\ v = Row(c).version

TransitionKinds ==
    {"transition_task", "transition_attempt", "transition_message", "transition_command",
     "record_command_outcome"}

assert_legal_parent(node, parent) ==
    /\ Present(rows, Node(parent))
    /\ \/ node = "tab" /\ rows[Node(parent)].body.node = "workspace"
       \/ node = "pane" /\ rows[Node(parent)].body.node \in {"tab", "pane"}

Nodes == {a[2] : a \in {b \in DOMAIN rows : b[1] = "workspace_node" /\ Present(rows, b)}}

\* A set that holds, with a node, the node's parent.
UpClosed(S) == \A m \in S \cap Nodes : rows[Node(m)].body.parent \in S

\* WORKSPACE_NODE_ANCESTOR, a recursive query: the nodes from id up to its root
\* are the smallest set that holds id and follows parent links.
Ancestors(id) ==
    LET Ids == Nodes \cup {id, NoParent} IN
    {m \in Ids : \A S \in SUBSET Ids : id \in S /\ UpClosed(S) => m \in S}

\* Mutant: the cycle is not looked for.
MoveAnywhere(c, v) ==
    /\ Present(rows, route_of(c)) /\ Row(c).body.node # "workspace"
    /\ c.payload.id # c.payload.arg.parent
    /\ assert_legal_parent(Row(c).body.node, c.payload.arg.parent)
    /\ decide_cas(c, v)

DecideMove(c, v) ==
    /\ Present(rows, route_of(c)) /\ Row(c).body.node # "workspace"
    /\ c.payload.id # c.payload.arg.parent
    /\ assert_legal_parent(Row(c).body.node, c.payload.arg.parent)
    /\ c.payload.id \notin Ancestors(c.payload.arg.parent)
    /\ decide_cas(c, v)

DecideWorkspace(c, v) ==
    LET p == c.payload IN
    \/ /\ p.kind = "create_workspace_node" /\ v = 0
       /\ IF p.arg.node = "workspace" THEN p.arg.parent = NoParent
          ELSE p.arg.parent \notin {NoParent, p.id} /\ assert_legal_parent(p.arg.node, p.arg.parent)
    \/ p.kind = "move_workspace_node" /\ DecideMove(c, v)
    \/ /\ p.kind = "rebind_workspace_pane"
       /\ Present(rows, route_of(c)) /\ Row(c).body.node = "pane"
       /\ decide_cas(c, v)
    \/ /\ p.kind = "close_workspace_node"
       /\ Unreferenced(rows, route_of(c))
       /\ decide_cas(c, v)

DecideWorkflow(c, v) ==
    /\ c.payload.kind \in {"advance_workflow_run", "close_workflow_run"}
    /\ Row(c).state = "running"
    /\ decide_cas(c, v)

\* Attach needs a running lifetime, close one that is not closed, detach a row.
DecidePtyLedger(c, v) ==
    LET k == c.payload.kind IN
    /\ k \in {"record_pty_attach", "record_pty_detach", "close_pty_session"}
    /\ k = "record_pty_attach" => Row(c).state = "running"
    /\ k = "close_pty_session" => Row(c).state \in {"running", "stopping"}
    /\ decide_cas(c, v)

\* Input, resize and stop are guarded by the host generation of the lifetime.
DecidePtyControl(c, v) ==
    LET k == c.payload.kind IN
    /\ k \in {"send_pty_input", "resize_pty_session", "stop_pty_session"}
    /\ Row(c).state = "running" \/ (k = "stop_pty_session" /\ Row(c).state = "stopping")
    /\ Row(c).body.generation = c.payload.arg.generation
    /\ v = Row(c).version

Template(name) == <<"pty_session_template", name>>

DecideTemplate(c, v) ==
    LET p == c.payload IN
    \/ /\ p.kind = "retire_pty_session_template"
       /\ Row(c).state = "active" /\ decide_cas(c, v)
    \/ /\ p.kind = "request_pty_session_start"
       /\ rows[Template(p.arg.template)].state = "active" /\ v = 0

\* A resume cursor only moves forward.
DecideCheckpoint(c, v) ==
    /\ c.payload.kind = "write_orchestrator_checkpoint"
    /\ Present(rows, route_of(c)) => c.payload.arg.seq > Row(c).body.seq
    /\ v = current_aggregate_version(route_of(c))

decide(c, v) ==
    LET p == c.payload IN
    \/ p.kind = "activate_kernel" /\ v = 1
    \/ p.kind \in Inserts \ {"create_workspace_node", "ingest_record"} /\ v = 0
    \/ p.kind \in CasKinds /\ decide_cas(c, v)
    \/ p.kind \in TakeKinds /\ v = current_aggregate_version(route_of(c))
    \/ p.kind \in TransitionKinds /\ decide_transition(c, v)
    \/ DecideWorkspace(c, v) \/ DecideWorkflow(c, v) \/ DecidePtyLedger(c, v)
    \/ DecidePtyControl(c, v) \/ DecideTemplate(c, v) \/ DecideCheckpoint(c, v)

\* The code a PTY command is refused with, which its receipt records.
RefusalCode(c) ==
    LET a == IF c.payload.kind = "request_pty_session_start"
             THEN Template(c.payload.arg.template) ELSE route_of(c)
    IN  IF ~Present(rows, a) THEN "not_found"
        ELSE IF c.payload.kind = "request_pty_session_start" THEN "validation"
        ELSE "stale_version"

check_attention_dedup(c) ==
    c.payload.kind = "raise_attention" =>
        unresolved_attention(rows, c.payload.arg.topic, c.payload.arg.subject) = {}

check_expected_version(c, v) == c.pinned = NoPin \/ c.pinned = v

build_event(c, v) ==
    [project |-> c.project, aggregate |-> route_of(c), version |-> v + 1, actor |-> c.actor,
     key |-> c.key, payload |-> c.payload, issued_at |-> c.issued_at, at |-> now]
-----------------------------------------------------------------------------
(***************************************************************************)
(* The steps.                                                              *)
(***************************************************************************)
GenesisEvent ==
    [project |-> System, aggregate |-> KernelAggregate, version |-> 1,
     actor |-> [kind |-> "kernel", id |-> System], key |-> GenesisKey,
     payload |-> [kind |-> "genesis"], issued_at |-> now, at |-> now]

\* Genesis is appended once, by whichever boot finds the log without an epoch.
ensure_genesis ==
    /\ epoch_of = "none"
    /\ log' = Append(log, GenesisEvent)
    /\ UNCHANGED <<rows, receipt, delivery, now>>

\* try_submit up to and including the key: admitted, valid input, new request.
New(c) == Admissible(c) /\ ~PreflightRefuses(c) /\ Unused(c)

\* The row that obliges the wire to tell the PTY host.
InsertDelivery(c) ==
    delivery' = IF c.payload.kind \in ReceiptedPty
                THEN delivery \cup {[project |-> c.project, key |-> c.key, cid |-> c.cid,
                                     seq |-> Len(log) + 1, binding |-> c.bytes]}
                ELSE delivery

\* The whole path: receipt, event, projection and delivery row in one commit.
Applied(c) ==
    LET basis == evaluate(c) IN
    /\ New(c) /\ ~Pages(c)
    /\ check_attention_dedup(c)
    /\ \E v \in 0 .. Len(log) :
        /\ decide(c, v)
        /\ check_expected_version(c, v)
        /\ v < MaxVersion
        /\ current_aggregate_version(route_of(c)) = v
        /\ LET e == build_event(c, v) IN
           /\ Projectable(rows, e)
           /\ rows' = apply_event(rows, e)
           /\ log' = Append(log, e)
    /\ IF basis = "none" THEN UNCHANGED receipt
       ELSE write_receipt(receipt_for(c, basis, "none"))
    /\ InsertDelivery(c)
    /\ UNCHANGED now

\* A retry of what landed: the original events are the answer, nothing is written.
Replayed(c) ==
    /\ Admissible(c) /\ ~PreflightRefuses(c)
    /\ Replay(c) /\ BindingMatches(c)
    /\ UNCHANGED vars

\* INSERT ... ON CONFLICT (kind, subject_ref) WHERE resolved_at IS NULL DO NOTHING:
\* an open item on the pair is joined, and a taken id is an error.
PageInsertable(c) ==
    \/ unresolved_attention(rows, "authority", route_of(c)) # {}
    \/ ~Present(rows, PageId(class_of(c.payload), route_of(c)))

\* A page commits its receipt and its attention item, and refuses the command.
paged(c) ==
    /\ New(c) /\ Pages(c)
    /\ write_receipt(receipt_for(c, evaluate(c), "none"))
    /\ PageInsertable(c)
    /\ rows' = IF unresolved_attention(rows, "authority", route_of(c)) # {} THEN rows
               ELSE [rows EXCEPT ![PageId(class_of(c.payload), route_of(c))] =
                       Unkeyed("open", [topic |-> "authority", subject |-> route_of(c)])]
    /\ UNCHANGED <<log, delivery, now>>

\* A PTY command refused by its input or by decide commits a receipt saying so.
receipted_pty_refusal(c) ==
    /\ Admissible(c)
    /\ \/ /\ PreflightRefuses(c)
          /\ write_receipt(receipt_for(c, "request_validation", "validation"))
       \/ /\ New(c) /\ ~Pages(c)
          /\ c.payload.kind \in ReceiptedPty
          /\ ~\E v \in 0 .. Len(log) : decide(c, v)
          /\ write_receipt(receipt_for(c, evaluate(c), RefusalCode(c)))
    /\ UNCHANGED <<log, rows, delivery, now>>

Tick ==
    /\ now < MaxNow[menu]
    /\ now' = now + 1
    /\ UNCHANGED <<log, rows, receipt, delivery>>

try_submit(c) ==
    Applied(c) \/ Replayed(c) \/ paged(c) \/ receipted_pty_refusal(c)

Next ==
    \/ ensure_genesis
    \/ \E c \in Menus[menu] : try_submit(c)
    \/ Tick

Spec == Init /\ [][Next /\ UNCHANGED menu]_<<vars, menu>>
-----------------------------------------------------------------------------
(***************************************************************************)
(* Properties.                                                             *)
(***************************************************************************)

Allows(r) == r.basis \in {"operator", "grant"} /\ r.refused = "none"

\* The receipt ledger tells the truth about gated commands: one that landed has a
\* receipt allowing exactly it, and a receipt that allows has its event.  A
\* refused or paged key can not be used to land the command later while its
\* only receipt attests the refusal (write_receipt).
ReceiptsTruthful ==
    /\ \A e \in Events : e.payload.kind # "genesis" /\ class_of(e.payload) # "unclassified" =>
        \E r \in receipt :
            /\ r.project = e.project /\ r.key = e.key /\ r.actor = e.actor
            /\ r.action = class_of(e.payload) /\ r.subject = e.aggregate /\ Allows(r)
    /\ \A r \in receipt : Allows(r) =>
        \E e \in Events : e.project = r.project /\ e.key = r.key /\ e.aggregate = r.subject

SubjectOf(e) ==
    IF e.payload.kind = "request_pty_session_start" THEN e.payload.arg.template
    ELSE e.aggregate[2]

\* Read off the log alone, every event was admissible when it landed.  Genesis
\* is the first, activation the second, and there is one of each: nothing else
\* lands in a sealed kernel.  A gated event of an actor without intrinsic
\* authority follows a grant to that actor for that class and subject that no
\* event revoked in between and that had not expired, by the database clock for
\* the PTY classes and by the issue time for the others (matching_grant).
EventsJustified ==
    \A i \in DOMAIN log :
        LET e == log[i]
            class == class_of(e.payload)
        IN
        /\ (i = 1) <=> (e.payload.kind = "genesis")
        /\ (i = 2) <=> (e.payload.kind = "activate_kernel")
        /\ \/ i = 1 \/ class = "unclassified"
           \/ is_pty_action(class) /\ e.actor.kind = "operator"
           \/ \E j \in 1 .. i - 1 :
                LET g == log[j].payload.arg IN
                /\ log[j].payload.kind = "grant_authority"
                /\ g.class = class /\ g.grantee = e.actor
                /\ g.scope \in {NoScope, SubjectOf(e)}
                /\ g.expires = Never
                    \/ g.expires > (IF is_pty_action(class) THEN e.at ELSE e.issued_at)
                /\ \A k \in j + 1 .. i - 1 :
                    ~(/\ log[k].payload.kind = "revoke_authority"
                      /\ log[k].aggregate = log[j].aggregate)

\* A page is never only a receipt: the subject has an authority item, open or
\* resolved since (paged commits both or neither), and however raises, pages and
\* resolves follow one another a (kind, subject) never has two open items.
PagesReachTheOperator ==
    LET Items == {a \in Aggregates : a[1] = "attention_item" /\ Present(rows, a)}
        Open == {a \in Items : rows[a].state = "open"}
    IN
    /\ \A r \in receipt : r.basis \in {"page_kind", "page_ungranted"} =>
        \E a \in Items : rows[a].body = [topic |-> "authority", subject |-> r.subject]
    /\ \A a, b \in Open : rows[a].body = rows[b].body => a = b

\* The rows are what the log says.  The compare-and-swap on the row and the one
\* on the log compare one number: a versioned row's version is the highest its
\* aggregate has reached, whichever commands took it there (apply_event); only a
\* closed workspace node has events and no row.  A history belongs to one
\* project, also when projects share ids and keys (check_aggregate_owner).  A
\* resume cursor is the newest of the checkpoints that landed, whatever order
\* they and their retries arrived in (checkpoint_seq).
RowsTrackLog ==
    /\ \A a \in Aggregates : a[1] \in DOMAIN Tables /\ Tables[a[1]].versioned =>
        \/ rows[a].version = current_aggregate_version(a)
        \/ a[1] = "workspace_node" /\ ~Present(rows, a)
    /\ \A e, f \in Events : e.aggregate = f.aggregate => e.project = f.project
    /\ \A e \in Events : e.aggregate[1] = "orchestrator_checkpoint" =>
        e.payload.arg.seq <= rows[e.aggregate].body.seq

\* Commands that would be answered as applied under one key of one project are
\* the same request from the same actor with the same bytes.
OneRequestPerKey ==
    LET answered == {c \in Menus[menu] : /\ Admissible(c) /\ ~PreflightRefuses(c)
                                         /\ Replay(c) /\ BindingMatches(c)}
    IN  \A c, d \in answered : c.project = d.project /\ c.key = d.key
            => c.actor = d.actor /\ c.payload = d.payload /\ c.bytes = d.bytes

\* Every PTY event has its delivery row, written with it, and no two rows share
\* a command id, which is what the host deduplicates by.
DeliveriesMatchLog ==
    /\ {d.seq : d \in delivery} = {i \in DOMAIN log : log[i].payload.kind \in ReceiptedPty}
    /\ \A d, f \in delivery : d.cid = f.cid \/ d.seq = f.seq => d = f

\* The workspace is a forest of workspaces: every node's parent is there and of a
\* kind that may hold it, and every node reaches a root (create, move and close
\* in any order).
WorkspaceIsForest ==
    \A a \in Aggregates : a[1] = "workspace_node" /\ Present(rows, a) =>
        LET b == rows[a].body IN
        /\ IF b.node = "workspace" THEN b.parent = NoParent
           ELSE assert_legal_parent(b.node, b.parent)
        /\ NoParent \in Ancestors(a[2])

\* What is recorded of a request is one story: its receipt, the one request its
\* key answers for, and the page that asks the operator.
AnswersHold == ReceiptsTruthful /\ OneRequestPerKey /\ PagesReachTheOperator

\* What the log implies is in the tables: the projected rows, the rows the PTY
\* host is served from and the workspace tree.
RowsAgree == RowsTrackLog /\ DeliveriesMatchLog /\ WorkspaceIsForest

(***************************************************************************)
(* The committed events are the log of the port.                           *)
(***************************************************************************)
Port == INSTANCE EventLog WITH
    Readers <- {}, token <- 0, cursor <- [r \in {} |-> 0], seen <- [r \in {} |-> {}],
    log <- {[seq |-> i, fence |-> 0,
             env |-> [aggregate |-> log[i].aggregate, version |-> log[i].version]]
                : i \in DOMAIN log}

\* Whatever is submitted, what lands is a behaviour of the event-store port.
ImplementsPort == Port!LogSpec
=============================================================================

----------------------------- MODULE MCCommands -----------------------------
(***************************************************************************)
(* Small instances of what puts facts on the kernel's log: submission, the *)
(* TTL sweep, the host that originates transcript records, and the Context *)
(* plane.  The machines share no state; a behaviour runs the one "which"   *)
(* names and leaves the others where they began.                           *)
(***************************************************************************)
EXTENDS Submit

CONSTANTS
    p1, p2,                         \* projects
    alice, bot, engine,             \* actor ids
    ka, kb, k1, k2, k3, k4, k5, k6, k7, k8, k9,   \* idempotency keys
    id1, id2, id3, id4,             \* aggregate ids
    gen, bytes1, bytes2             \* a host generation, input bytes

CONSTANT Machines    \* the machines this run exercises

VARIABLES
    which,
    (* TtlSweep *)
    held, tried, sweep, faults, holders,
    (* Originate *)
    at, step, reread, landed, keys, node, ended, restarts, moves,
    (* Context, Skill *)
    part, offered, outcome, script, facts, attempts, tables, sealed, epoch, document, bundle

-----------------------------------------------------------------------------
(* Submission.  Each menu is a set of commands around one part of the path; *)
(* a command may be presented at any time, any number of times, so the      *)
(* menus name conflicting and repeated requests.                            *)

Operator == [kind |-> "operator", id |-> alice]
Orchestrator == [kind |-> "orchestrator", id |-> bot]
Engine == [kind |-> "engine", id |-> engine]

Body(kind, id, expected, to, refs, arg) ==
    [kind |-> kind, id |-> id, expected |-> expected, to |-> to, refs |-> refs, arg |-> arg]

\* An unpinned command issued at 1 under its own command id.
Cmd(project, actor, key, payload) ==
    [project |-> project, actor |-> actor, key |-> key, cid |-> key, issued_at |-> 1,
     pinned |-> NoPin, bytes |-> NoBytes, payload |-> payload]

Plain(kind, id) == Body(kind, id, 0, "", {}, NoBody)
Activate(k) == Cmd(System, Operator, k, Body("activate_kernel", Singleton, 0, "", {}, [cutover |-> k]))
Grant(id, to, class, scope, expires) ==
    Body("grant_authority", id, 0, "", {},
         [grantee |-> to, class |-> class, scope |-> scope, expires |-> expires])
Raise(id, topic, subject) ==
    Body("raise_attention", id, 0, "", {}, [topic |-> topic, subject |-> subject])

\* Gated stops: granted, revoked, expired, paged, resolved, paged again; the key of
\* a paged stop reused; and a raise on the page's own pair.
StopPage == <<"stop", <<"command", id1>>>>
AuthorityCommands ==
    {Activate(ka), Activate(kb),
     Cmd(p1, Operator, k1, Grant(id3, Orchestrator, "stop", id1, 2)),
     Cmd(p1, Orchestrator, k2, Grant(id4, Orchestrator, "stop", NoScope, Never)),
     Cmd(p1, Operator, k2, Plain("revoke_authority", id3)),
     Cmd(p1, Orchestrator, k3, Plain("issue_command", id1)),
     [Cmd(p1, Orchestrator, k4, Plain("issue_command", id1)) EXCEPT !.issued_at = 2],
     Cmd(p1, Operator, k3, Plain("create_task", id2)),
     Cmd(p1, Operator, k6, Plain("resolve_attention", StopPage)),
     Cmd(p1, Operator, k7, Raise(id2, "authority", <<"command", id1>>))}

\* One lifetime: opened, written to by operator, orchestrator and engine, with
\* different bytes under one key, an invalid carrier, a shared command id, a
\* grant that expires by the clock, a close; and a template that is started.
Life == <<id1, gen>>
Input(key, actor, bytes) ==
    [Cmd(p1, actor, key, Body("send_pty_input", Life, 0, "", {}, [generation |-> gen]))
        EXCEPT !.bytes = bytes, !.issued_at = 0]
PtyCommands ==
    {Activate(ka),
     Cmd(p1, Operator, k1, Body("open_pty_session", Life, 0, "", {}, [generation |-> gen])),
     Input(k2, Orchestrator, bytes1), Input(k2, Orchestrator, bytes2),
     Input(k2, Orchestrator, NoBytes), Input(k3, Engine, bytes1),
     [Input(k4, Operator, bytes1) EXCEPT !.cid = k2],
     Cmd(p1, Operator, k5, Grant(id3, Orchestrator, "pty_input", Life, 1)),
     Cmd(p1, Operator, k6, Body("close_pty_session", Life, 2, "", {}, NoBody)),
     Cmd(p1, Operator, k7, Body("stop_pty_session", Life, 0, "", {}, [generation |-> gen])),
     Cmd(p1, Operator, k8, Body("record_pty_attach", Life, 1, "", {}, NoBody)),
     Cmd(p1, Operator, k9, Body("record_pty_detach", Life, 2, "", {}, NoBody))}

StartCommands ==
    {Activate(ka),
     Cmd(p1, Operator, k1, Plain("declare_pty_session_template", id1)),
     Cmd(p1, Orchestrator, k7, Plain("declare_pty_session_template", id1)),
     Cmd(p1, Operator, k2, Body("retire_pty_session_template", id1, 1, "", {}, NoBody)),
     Cmd(p1, Orchestrator, k3, Body("request_pty_session_start", id2, 0, "", {}, [template |-> id1])),
     Cmd(p1, Operator, k4, Body("request_pty_session_start", id2, 0, "", {}, [template |-> id1])),
     Cmd(p1, Operator, k5, Grant(id3, Orchestrator, "pty_start", id1, 1)),
     Cmd(p1, Operator, k6, Plain("revoke_authority", id3)),
     Cmd(p1, Operator, k8, Body("record_evidence", id4, 0, "", {}, [topic |-> "config_change"]))}

\* The operator's command under a key of its own.
Keyed(project, payload) ==
    Cmd(project, Operator, <<payload.kind, payload.id, payload.expected, payload.to, payload.arg>>,
        payload)

\* Two projects over the same ids and keys; an attempt's machine, its plain
\* compare-and-swaps and its log-version facts, at right and wrong versions; a
\* pinned envelope.
Task1 == <<"task", id1>>
Attempt(kind, expected, to) == Body(kind, id2, expected, to, {}, [receipt |-> FALSE])
LedgerCommands ==
    {Activate(ka),
     Cmd(p1, Operator, k1, Plain("create_task", id1)),
     Cmd(p2, Operator, k1, Plain("create_task", id1)),
     Cmd(p2, Operator, k2, Body("transition_task", id1, 1, "working", {}, NoBody)),
     [Cmd(p1, Operator, k2, Body("transition_task", id1, 1, "working", {}, NoBody))
        EXCEPT !.pinned = 1],
     Cmd(p1, Operator, k3, Body("create_attempt", id2, 0, "", {Task1}, NoBody))}
    \cup {Keyed(p1, Attempt("transition_attempt", v, to)) :
            v \in 1 .. 2, to \in {"leased", "canceled"}}
    \cup {Keyed(p1, Attempt("record_round", 0, ""))}
    \cup {Keyed(p1, Attempt("update_budget", v, "")) : v \in 2 .. 3}

MessageCommands ==
    {Activate(ka),
     Cmd(p1, Operator, k1, Plain("send_message", id1)),
     Cmd(p2, Operator, k1, Plain("send_message", id2)),
     Cmd(p1, Operator, k2, Body("transition_message", id1, 1, "delivered", {}, NoBody)),
     Cmd(p1, Operator, k3, Body("transition_message", id1, 1, "dead_letter", {}, NoBody)),
     Cmd(p1, Operator, k4, Plain("open_gate", id3)),
     Cmd(p1, Operator, k5, Body("decide_gate", id3, 1, "pass", {}, NoBody)),
     Cmd(p1, Operator, k6, Body("decide_gate", id3, 2, "fail", {}, NoBody))}

\* A lease renewed and expired at racing versions, a workflow run advanced and
\* closed, and two resume cursors.
LifecycleCommands ==
    {Activate(ka),
     Cmd(p1, Operator, k1, Plain("acquire_lease", id1)),
     Cmd(p1, Operator, k2, Body("renew_lease", id1, 1, "", {}, NoBody)),
     Cmd(p1, Operator, k3, Body("expire_lease", id1, 1, "", {}, NoBody)),
     Cmd(p1, Operator, k4, Body("expire_lease", id1, 2, "", {}, NoBody)),
     Cmd(p1, Operator, k5, Plain("open_workflow_run", id2)),
     Cmd(p1, Operator, k6, Body("advance_workflow_run", id2, 1, "", {}, NoBody)),
     Cmd(p1, Operator, k7, Body("close_workflow_run", id2, 1, "completed", {}, NoBody)),
     Cmd(p1, Operator, k8, Body("write_orchestrator_checkpoint", id3, 0, "", {}, [seq |-> 1])),
     Cmd(p1, Operator, k9, Body("write_orchestrator_checkpoint", id3, 0, "", {}, [seq |-> 2]))}

\* A workspace, a tab and two panes, moved under each other and closed.
NodeAt(kind, id, expected, what, parent) ==
    Body(kind, id, expected, "", IF parent = NoParent THEN {} ELSE {Node(parent)},
         [node |-> what, parent |-> parent])
WorkspaceCommands ==
    {Activate(ka),
     Keyed(p1, NodeAt("create_workspace_node", id1, 0, "workspace", NoParent)),
     Keyed(p1, NodeAt("create_workspace_node", id2, 0, "tab", id1)),
     Keyed(p1, NodeAt("create_workspace_node", id3, 0, "pane", id2)),
     Keyed(p1, NodeAt("create_workspace_node", id4, 0, "pane", id3)),
     Keyed(p1, Body("rebind_workspace_pane", id3, 1, "", {}, NoBody)),
     Keyed(p2, Body("close_workspace_node", id4, 1, "", {}, NoBody))}
    \cup {Keyed(p1, NodeAt("move_workspace_node", n, v, "", to)) :
            n \in {id3, id4}, v \in 1 .. 2, to \in {id1, id2, id3, id4}}
    \cup {Keyed(p1, Body("close_workspace_node", n, v, "", {}, NoBody)) :
            n \in {id1, id2, id3, id4}, v \in 1 .. 3}

AllMenus ==
    [authority |-> AuthorityCommands, pty |-> PtyCommands, start |-> StartCommands,
     ledger |-> LedgerCommands, messages |-> MessageCommands,
     lifecycle |-> LifecycleCommands, workspace |-> WorkspaceCommands]
Clock == [n \in DOMAIN AllMenus |-> IF n \in {"pty", "start"} THEN 1 ELSE 0]

-----------------------------------------------------------------------------
\* One lease: an attempt that can start, run and block beside one that waits,
\* under a lease that is renewed or released; and two that can both start.
Holders == {[renewals |-> 2, moves |-> <<5, 1>>], [renewals |-> 1, moves |-> <<3, 3>>]}

Sweep == INSTANCE TtlSweep WITH
    env <- holders, lease <- held, attempt <- tried, Leases <- {"l1"}, Attempts <- {1, 2}, NoLease <- "NoLease", TTL <- 1, STALE_AFTER <- 1,
    STALE_SWEEP_BATCH <- 1, Environments <- Holders, MaxFaults <- 1

ASSUME Sweep!SweepAssumption

-----------------------------------------------------------------------------
\* A node is started, finishes, and is closed by a record with an earlier body;
\* one record is too large.
Transcript(id, large, hint) ==
    [body |-> [id |-> id, kind |-> "object", fields |-> 1, large |-> large], hint |-> hint]
Transitioned(to, v) == [t |-> "transitioned", node |-> "n1", to |-> to, version |-> v]

Host == INSTANCE Originate WITH
    log <- landed, Nodes <- {"n1"}, MAX_RESTARTS <- 2, MAX_MOVES <- 2,
    Records <- <<Transcript("b1", FALSE, [t |-> "started", node |-> "n1", kind |-> "subagent"]),
                 Transcript("b2", FALSE, Transitioned("finished", 1)),
                 Transcript("b3", TRUE, [t |-> "none"]),
                 Transcript("b1", FALSE, Transitioned("closed", 2))>>

-----------------------------------------------------------------------------
CONSTANTS Candidates, Budgets, Scripts, Entries, Paths

Context == INSTANCE MCContext WITH
    which <- part, log <- facts, Granted <- {"x"}, MAX_SLOT <- 3, MAX_OFFERED <- 3,
    MAX_FACTS <- 7, SKILL_MAX_NESTING_DEPTH <- 2, SKILL_OPAQUE_FIELD_MAX_COUNT <- 2,
    SKILL_BUNDLE_MAX_ENTRIES <- 2, SKILL_FRONTMATTER_MAX <- 20, MAX_ENTRIES <- 3

\* What MCContext offers to its parts; none of it depends on what is offered.
Offer == INSTANCE MCContext WITH
    which <- part, log <- facts, Granted <- {"x"}, MAX_SLOT <- 3, MAX_OFFERED <- 3, MAX_FACTS <- 0,
    SKILL_MAX_NESTING_DEPTH <- 0, SKILL_OPAQUE_FIELD_MAX_COUNT <- 0, SKILL_BUNDLE_MAX_ENTRIES <- 0,
    SKILL_FRONTMATTER_MAX <- 0, MAX_ENTRIES <- 0,
    Candidates <- {}, Budgets <- {}, Scripts <- {}, Entries <- {}, Paths <- {}
AllCandidates == Offer!MCCandidates
AllBudgets == Offer!MCBudgets
AllScripts == Offer!MCScripts
AllEntries == Offer!MCEntries
AllPaths == Offer!MCPaths

-----------------------------------------------------------------------------
sweepVars == <<held, tried, sweep, faults>>
hostVars == <<at, step, reread, landed, keys, node, ended, restarts, moves>>
contextVars == <<part, offered, outcome, script, facts, attempts, tables, sealed, epoch,
                 document, bundle>>

MCInit ==
    /\ which \in Machines
    /\ Init /\ (which # "submit" => menu = "ledger")
    /\ Sweep!Init /\ (which # "sweep" => holders.renewals = 1)
    /\ Host!Init
    /\ Context!Init /\ (which # "context" => part = "compile")

MCNext ==
    /\ UNCHANGED <<which, menu, holders>>
    /\ \/ which = "submit" /\ Next /\ UNCHANGED <<sweepVars, hostVars, contextVars>>
       \/ which = "sweep" /\ Sweep!Next /\ UNCHANGED <<vars, hostVars, contextVars>>
       \/ which = "originate" /\ Host!Next /\ UNCHANGED <<vars, sweepVars, contextVars>>
       \/ which = "context" /\ Context!Next /\ UNCHANGED <<vars, sweepVars, hostVars>>

\* The fairness of the sweep, while it runs.
MCFairness ==
    /\ WF_sweepVars(which = "sweep" /\ Sweep!Tick)
    /\ WF_sweepVars(which = "sweep" /\ Sweep!run)

MCSpec ==
    /\ MCInit
    /\ [][MCNext]_<<which, menu, holders, vars, sweepVars, hostVars, contextVars>>
    /\ MCFairness

-----------------------------------------------------------------------------
\* TtlSweep: the sweep acts on evidence that still holds when it writes.
ActsOnEvidence == Sweep!ActsOnEvidence

\* TtlSweep: no attempt stays silent in a state whose silence means something.
SilentAttemptsBuried == []<>(which = "sweep" => Sweep!Buried(1)) /\ []<>(which = "sweep" => Sweep!Buried(2))

\* Originate: what explains a node's move is on the log before the move.
OrderPinned == which = "originate" => Host!OrderPinned

\* Context, Skill: compiler, verifier, the kernel's records
\* and the readers of skills agree.
ContextAgrees == which = "context" => Context!ContextAgrees
=============================================================================

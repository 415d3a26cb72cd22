----------------------------- MODULE Workspace ------------------------------
(***************************************************************************)
(* One terminal workbench and the kernel's workspace_node rows: the client *)
(* plans commands against the rows it last read, submits them one by one,  *)
(* and either applies the plan to its own layout or rebuilds the layout    *)
(* from the rows (gwk-tui workspace/runtime.rs, gridwork tui.rs).          *)
(*                                                                         *)
(* A handler of the console runs to its end before the loop selects again, *)
(* but each request it sends is a step of its own, so other clients, and   *)
(* the end of a terminal, come between two of them.  job is that running   *)
(* handler; its todo list holds what the handler has still to do.          *)
(***************************************************************************)
EXTENDS Layout

CONSTANTS Sessions,      \* terminal lifetimes
          Area,          \* the rectangle panes are laid out in
          Menus          \* what happens in a behaviour, one chosen for each

VARIABLES
    rows,       \* gwk.workspace_node: id |-> [kind, parent, session, version, at]
    receipts,   \* idempotency keys the kernel has answered: <<intent, index>>
    live,       \* lifetimes whose row says running
    news,       \* events not yet delivered: [nodes: BOOLEAN, ended: set]
    rt,         \* WorkspaceRuntime: [state, bindings, containers, facts]
    pending,    \* pending_workspace_mutation
    retired,    \* retired_workspace_bindings
    again,      \* pending_workspace_stream_restart
    surface,    \* "lifetimes", "attach", or "exited" when the loop returned
    job,        \* the handler that is running
    minted,     \* node ids and intents drawn so far
    used,       \* [acts, others, faults] so far
    menu        \* the menu of the behaviour, never changed

wvars == <<rows, receipts, live, news, rt, pending, retired, again, surface, job, minted,
           used>>

None == "none"
NoJob == [pc |-> "none"]
NoMutation == [intent |-> 0]
NoBinding == [node |-> NoNode, session |-> None]

-----------------------------------------------------------------------------
(* The kernel: which commands a table of rows admits, and what they do.    *)

Kids(table, id) == {k \in DOMAIN table : table[k].parent = id}

ParentAdmits(table, kind, parent) ==
  CASE kind = "workspace" -> parent = NoNode
    [] kind = "tab" -> parent \in DOMAIN table /\ table[parent].kind = "workspace"
    [] kind = "pane" -> parent \in DOMAIN table /\ table[parent].kind \in {"tab", "pane"}

Accepts(c) ==
  IF c.do = "create" THEN c.node \notin DOMAIN rows /\ ParentAdmits(rows, c.kind, c.parent)
  ELSE /\ c.node \in DOMAIN rows /\ rows[c.node].version = c.version
       /\ c.do = "move" => ParentAdmits(rows, rows[c.node].kind, c.parent)
       /\ c.do = "close" => Kids(rows, c.node) = {}

After(c) ==
  CASE c.do = "create" ->
         [id \in DOMAIN rows \cup {c.node} |->
            IF id = c.node THEN [kind |-> c.kind, parent |-> c.parent, session |-> c.session,
                                 version |-> 1, at |-> c.node]
            ELSE rows[id]]
    [] c.do = "move" -> [rows EXCEPT ![c.node].parent = c.parent, ![c.node].version = @ + 1]
    [] c.do = "rebind" -> [rows EXCEPT ![c.node].session = c.session, ![c.node].version = @ + 1]
    [] c.do = "close" -> [id \in DOMAIN rows \ {c.node} |-> rows[id]]

Command(do, node, kind, parent, session, version) ==
  [do |-> do, node |-> node, kind |-> kind, parent |-> parent, session |-> session,
   version |-> version]
create(node, kind, parent, session) == Command("create", node, kind, parent, session, 0)

-----------------------------------------------------------------------------
(* The runtime's reading of the rows.                                      *)

NodeFact(row) == [version |-> row.version, kind |-> row.kind, parent |-> row.parent,
                  session |-> row.session]
FactsOf(table) == [id \in DOMAIN table |-> NodeFact(table[id])]

from_projection(table) ==
  LET r == reproduce(table)
  IN  [state |-> r.state, bindings |-> r.bindings, containers |-> r.containers,
       facts |-> FactsOf(table)]

\* Mutant: only the set of nodes is compared.
MatchesNodes(table) == DOMAIN table = DOMAIN rt.facts

matches_projection(table) == FactsOf(table) = rt.facts

session_for_pane(r, pane) == IF pane \in DOMAIN r.bindings THEN r.bindings[pane].session ELSE None
panes_for_node(r, node) == {p \in DOMAIN r.bindings : r.bindings[p].node = node}
panes_for_session(r, s) == {p \in DOMAIN r.bindings : r.bindings[p].session = s}
visible_bound_panes(r) ==
  IF HasTab(r.state)
  THEN {p \in ToSet(pane_ids(active_tab(r.state).root)) : session_for_pane(r, p) # None}
  ELSE {}

\* The durable ids of the active containers, NoNode when there is none.
active_workspace_node ==
  IF HasTab(rt.state) /\ rt.state.active \in DOMAIN rt.containers
  THEN rt.containers[rt.state.active].node ELSE NoNode
active_tab_node ==
  IF active_workspace_node = NoNode THEN NoNode
  ELSE LET tabs == rt.containers[rt.state.active].tabs
           i == active_workspace(rt.state).active
       IN  IF i \in DOMAIN tabs THEN tabs[i] ELSE NoNode

-----------------------------------------------------------------------------
(* Plans.  A plan is [commands, effect]; Refusal is the Err of the code.   *)

Refusal == [commands |-> <<>>, effect |-> [do |-> "refused"]]
Planned(commands, effect) == [commands |-> commands, effect |-> effect]
Fresh(n) == minted.node + n

PlanNewWorkspace(session) ==
  Planned(<<create(Fresh(1), "workspace", NoNode, None), create(Fresh(2), "tab", Fresh(1), None),
            create(Fresh(3), "pane", Fresh(2), session)>>,
          [do |-> "NewWorkspace", workspace |-> Fresh(1), tab |-> Fresh(2), node |-> Fresh(3),
           session |-> session])

PlanNewTab ==
  IF active_workspace_node = NoNode THEN Refusal
  ELSE Planned(<<create(Fresh(1), "tab", active_workspace_node, None),
                 create(Fresh(2), "pane", Fresh(1), None)>>,
               [do |-> "NewTab", workspace |-> active_workspace_node, tab |-> Fresh(1),
                node |-> Fresh(2)])

\* The parent is the focused pane's row, or the tab of a placeholder; the
\* tab is looked up either way, and its absence refuses the split.
PlanSplit(axis) ==
  LET pane == focused_pane(rt.state)
      bound == IF pane \in DOMAIN rt.bindings THEN rt.bindings[pane].node ELSE NoNode
      parent == IF bound # NoNode THEN bound ELSE active_tab_node
  IN  IF pane = 0 \/ active_tab_node = NoNode THEN Refusal
      ELSE Planned(<<create(Fresh(1), "pane", parent, None)>>,
                   [do |-> "Split", node |-> Fresh(1), parent |-> parent, axis |-> axis])

CloseCommand(node) == Command("close", node, None, NoNode, None, rt.facts[node].version)

plan_close_pane(pane) ==
  LET node == IF pane \in DOMAIN rt.bindings THEN rt.bindings[pane].node ELSE NoNode
      kids == SetToSortSeq(Kids(rt.facts, node), <)
  IN  IF node = NoNode THEN Refusal
      ELSE Planned([i \in DOMAIN kids |->
                      Command("move", kids[i], None, rt.facts[node].parent, None,
                              rt.facts[kids[i]].version)] \o <<CloseCommand(node)>>,
                   [do |-> "ClosePane", pane |-> pane, node |-> node, kids |-> ToSet(kids)])

RECURSIVE PostOrder(_)
PostOrder(node) ==
  FlatMap(LAMBDA k : PostOrder(k), SetToSortSeq(Kids(rt.facts, node), <)) \o <<node>>

plan_close_subtree(root, effect) ==
  LET nodes == PostOrder(root)
  IN  IF root = NoNode \/ root \notin DOMAIN rt.facts THEN Refusal
      ELSE Planned([i \in DOMAIN nodes |-> CloseCommand(nodes[i])],
                   [do |-> effect, nodes |-> ToSet(nodes)])

plan_action(action) ==
  CASE action = "NewWorkspace" -> PlanNewWorkspace(None)
    [] action = "NewTab" -> PlanNewTab
    [] action = "SplitColumns" -> PlanSplit("columns")
    [] action = "SplitRows" -> PlanSplit("rows")
    [] action = "ClosePane" -> plan_close_pane(focused_pane(rt.state))
    [] action = "CloseTab" -> plan_close_subtree(active_tab_node, "CloseTab")
    [] action = "CloseWorkspace" -> plan_close_subtree(active_workspace_node, "CloseWorkspace")

PlanFill(pane, session) ==
  IF active_tab_node # NoNode
  THEN Planned(<<create(Fresh(1), "pane", active_tab_node, session)>>,
               [do |-> "FillPlaceholder", pane |-> pane, node |-> Fresh(1),
                parent |-> active_tab_node, session |-> session])
  ELSE IF active_workspace_node = NoNode THEN Refusal
  ELSE Planned(<<create(Fresh(1), "tab", active_workspace_node, None),
                 create(Fresh(2), "pane", Fresh(1), session)>>,
               [do |-> "FillWorkspacePlaceholder", pane |-> pane, tab |-> Fresh(1),
                workspace |-> active_workspace_node, node |-> Fresh(2), session |-> session])

\* The attach of a lifetime to the focused leaf.  Nothing to do is a plan of
\* no commands with the effect "kept".
plan_bind(session) ==
  LET pane == focused_pane(rt.state)
      b == rt.bindings[pane]
  IN  IF pane = 0 THEN PlanNewWorkspace(session)
      ELSE IF pane \notin DOMAIN rt.bindings THEN Refusal
      ELSE IF b.session = session THEN Planned(<<>>, [do |-> "kept"])
      ELSE IF b.node = NoNode THEN PlanFill(pane, session)
      ELSE Planned(<<Command("rebind", b.node, None, NoNode, session, b.version)>>,
                   [do |-> "Rebind", pane |-> pane, session |-> session])

-----------------------------------------------------------------------------
(* A successful plan applied to the local layout.                          *)

Put(f, k, v) == [x \in DOMAIN f \cup {k} |-> IF x = k THEN v ELSE f[x]]
Fact(kind, parent, session) == [version |-> 1, kind |-> kind, parent |-> parent,
                                session |-> session]

insert_binding(r, pane, node, parent, session) ==
  [r EXCEPT !.facts = Put(@, node, Fact("pane", parent, session)),
            !.bindings = Put(@, pane, [node |-> node, version |-> 1, parent |-> parent,
                                       session |-> session])]

AddTab(r, workspace, tab) ==
  [r EXCEPT !.containers = [i \in DOMAIN @ |-> IF @[i].node = workspace
                              THEN [@[i] EXCEPT !.tabs = Append(@, tab)] ELSE @[i]],
            !.facts = Put(@, tab, Fact("tab", workspace, None))]

remove_nodes(r, nodes) ==
  LET keep == {p \in DOMAIN r.bindings : r.bindings[p].node \notin nodes}
      held == SelectSeq(r.containers, LAMBDA w : w.node \notin nodes)
  IN  [r EXCEPT !.bindings = [p \in keep |-> @[p]],
                !.facts = [id \in DOMAIN @ \ nodes |-> @[id]],
                !.containers = [i \in DOMAIN held |-> [held[i] EXCEPT
                                  !.tabs = SelectSeq(@, LAMBDA t : t \notin nodes)]]]

ApplyRebind(r, e) ==
  IF e.pane \notin DOMAIN r.bindings THEN r
  ELSE [r EXCEPT !.bindings[e.pane].session = e.session, !.bindings[e.pane].version = @ + 1,
                 !.facts[r.bindings[e.pane].node].session = e.session,
                 !.facts[r.bindings[e.pane].node].version = @ + 1]

\* The closed pane's children move up to its parent.
Reparent(r, kids, parent) ==
  [r EXCEPT !.facts = [id \in DOMAIN @ |-> IF id \in kids
                         THEN [@[id] EXCEPT !.parent = parent, !.version = @ + 1] ELSE @[id]],
            !.bindings = [p \in DOMAIN @ |-> IF @[p].node \in kids
                         THEN [@[p] EXCEPT !.parent = parent, !.version = @ + 1] ELSE @[p]]]

\* The pane is focused first; a tab with one pane keeps its leaf.
ApplyClosePane(r, e) ==
  LET moved == Reparent(r, e.kids, r.facts[e.node].parent)
      aimed == focus_pane(moved.state, e.pane)
      husk == HasTab(aimed) /\ pane_count(active_tab(aimed)) = 1
  IN  remove_nodes([moved EXCEPT !.state = IF husk THEN aimed ELSE close_pane(aimed)], {e.node})

apply_mutation(r, e) ==
  CASE e.do = "NewWorkspace" ->
         insert_binding([r EXCEPT !.state = create_workspace(@),
                                  !.containers = Append(@, [node |-> e.workspace, tabs |-> <<e.tab>>]),
                                  !.facts = Put(Put(@, e.workspace, Fact("workspace", NoNode, None)),
                                                e.tab, Fact("tab", e.workspace, None))],
                        r.state.next_pane, e.node, e.tab, e.session)
    [] e.do = "NewTab" ->
         IF ~HasTab(r.state) THEN [r EXCEPT !.state = create_tab(@)]
         ELSE insert_binding([AddTab(r, e.workspace, e.tab) EXCEPT !.state = create_tab(@)],
                             r.state.next_pane, e.node, e.tab, None)
    [] e.do = "Split" ->
         IF ~HasTab(r.state) THEN r
         ELSE insert_binding([r EXCEPT !.state = split(@, e.axis)], r.state.next_pane, e.node,
                             e.parent, None)
    [] e.do = "FillPlaceholder" -> insert_binding(r, e.pane, e.node, e.parent, e.session)
    [] e.do = "FillWorkspacePlaceholder" ->
         insert_binding(AddTab(r, e.workspace, e.tab), e.pane, e.node, e.tab, e.session)
    [] e.do = "Rebind" -> ApplyRebind(r, e)
    [] e.do = "ClosePane" -> ApplyClosePane(r, e)
    [] e.do = "CloseTab" -> remove_nodes([r EXCEPT !.state = close_tab(@)], e.nodes)
    [] e.do = "CloseWorkspace" -> remove_nodes([r EXCEPT !.state = close_workspace(@)], e.nodes)

command_satisfied(c, table) ==
  CASE c.do = "create" -> /\ c.node \in DOMAIN table
                          /\ NodeFact(table[c.node]) = [Fact(c.kind, c.parent, c.session) EXCEPT
                                                          !.version = table[c.node].version]
    [] c.do = "move" -> /\ c.node \in DOMAIN table /\ table[c.node].parent = c.parent
                        /\ table[c.node].version > c.version
    [] c.do = "rebind" -> /\ c.node \in DOMAIN table /\ table[c.node].session = c.session
                          /\ table[c.node].version > c.version
    [] c.do = "close" -> c.node \notin DOMAIN table

satisfied(mutation, table) ==
  \A i \in DOMAIN mutation.commands : command_satisfied(mutation.commands[i], table)

-----------------------------------------------------------------------------
(***************************************************************************)
(* The steps of the workbench of module Workspace, of other clients, and   *)
(* of the terminals it shows (gridwork tui.rs).                            *)
(***************************************************************************)

\* todo items: a pane to retire, a binding to retire, the retry of retired
\* bindings, a restart of the streams.
PaneItem(p) == [t |-> "pane", pane |-> p, binding |-> NoBinding]
BindingItem(b) == [t |-> "binding", pane |-> 0, binding |-> b]
Retry == [t |-> "retry", pane |-> 0, binding |-> NoBinding]
Restart == [t |-> "restart", pane |-> 0, binding |-> NoBinding]
RestartIfChanged == [t |-> "restart?", pane |-> 0, binding |-> NoBinding]

Todo(items, changed) ==
  [pc |-> "next", todo |-> items, index |-> 0, known |-> FALSE, retire |-> NoBinding,
   changed |-> changed]
Submitting(retire, items, changed) ==
  [Todo(items, changed) EXCEPT !.pc = "submit", !.index = 1, !.retire = retire]

Faulty == used.faults < menu.faults
Fault == used' = [used EXCEPT !.faults = @ + 1]
NoFault == used' = used
Quiet == job = NoJob
Running == surface # "exited"
Empty == [nodes |-> FALSE, ended |-> {}]

Init ==
  /\ menu \in Menus
  /\ rows = menu.rows /\ receipts = {} /\ live = Sessions /\ news = Empty
  /\ rt = from_projection(menu.rows)
  /\ pending = NoMutation /\ retired = {} /\ again = FALSE
  /\ surface = menu.surface /\ job = NoJob
  /\ minted = [node |-> Cardinality(DOMAIN menu.rows), intent |-> 0]
  /\ used = [acts |-> 0, others |-> 0, faults |-> 0]

-----------------------------------------------------------------------------
(* submit_workspace_mutation: one mutation at a time; the keys of its      *)
(* commands are fixed before the first is sent.                            *)

Mutation(plan, completion) ==
  [intent |-> minted.intent + 1, commands |-> plan.commands, effect |-> plan.effect,
   uncertain |-> FALSE, completion |-> completion]

submit_workspace_mutation(plan, completion, retire, items, changed) ==
  /\ pending = NoMutation
  /\ pending' = Mutation(plan, completion)
  /\ minted' = [node |-> minted.node + Cardinality({i \in DOMAIN plan.commands :
                                                      plan.commands[i].do = "create"}),
                intent |-> minted.intent + 1]
  /\ job' = Submitting(retire, items, changed)

\* What close_retired_workspace_binding does once the close was tried: a pane
\* that still shows the lifetime is remembered for the next tick.
StillShown(r, b) == \E p \in panes_for_node(r, b.node) : r.bindings[p].session = b.session
AfterClose(r, b) ==
  IF b = NoBinding THEN retired ELSE IF StillShown(r, b) THEN retired \cup {b} ELSE retired \ {b}

\* resume_workspace_mutation returned: result says whether it completed.
Return(r, result) ==
  /\ rt' = r /\ retired' = AfterClose(r, job.retire)
  /\ job' = Todo(job.todo, job.changed \/ (IF job.retire = NoBinding THEN result
                                            ELSE ~StillShown(r, job.retire)))
KeepPending == Return(rt, FALSE)
Route == surface' = IF pending.completion = "attach" THEN "attach" ELSE surface

Key == <<pending.intent, job.index>>
Cmd == pending.commands[job.index]
AtCommand == Running /\ job.pc = "submit" /\ job.index <= Len(pending.commands)

Commit ==
  IF Key \in receipts THEN UNCHANGED <<rows, receipts, news>>
  ELSE /\ Accepts(Cmd) /\ rows' = After(Cmd) /\ receipts' = receipts \cup {Key}
       /\ news' = [news EXCEPT !.nodes = TRUE]

SubmitOk ==
  /\ AtCommand /\ Commit
  /\ job' = [job EXCEPT !.index = @ + 1]
  /\ UNCHANGED <<live, rt, pending, retired, again, surface, minted, used, menu>>

\* storage, overloaded or slow_consumer: the write may or may not have landed.
SubmitUncertain ==
  /\ AtCommand /\ Faulty /\ Fault
  /\ \/ Commit
     \/ UNCHANGED <<rows, receipts, news>>
  /\ pending' = [pending EXCEPT !.uncertain = TRUE]
  /\ KeepPending
  /\ UNCHANGED <<live, again, surface, minted, menu>>

SubmitRefused ==
  /\ AtCommand /\ Key \notin receipts /\ ~Accepts(Cmd)
  /\ \/ /\ Faulty /\ Fault /\ KeepPending                  \* the rows cannot be read
        /\ UNCHANGED <<pending, surface>>
     \/ /\ command_satisfied(Cmd, rows) /\ NoFault
        /\ job' = [job EXCEPT !.index = @ + 1, !.known = TRUE]
        /\ UNCHANGED <<rt, pending, retired, surface>>
     \/ /\ ~command_satisfied(Cmd, rows) /\ NoFault
        /\ pending' = NoMutation
        /\ Return(from_projection(rows), satisfied(pending, rows))
        /\ IF satisfied(pending, rows) THEN Route ELSE UNCHANGED surface
  /\ UNCHANGED <<rows, receipts, live, news, again, minted, menu>>

\* Every command is in: the plan is applied, or the rows are read again when
\* something other than this handler may have shaped them.
FinishMutation ==
  /\ Running /\ job.pc = "submit" /\ job.index > Len(pending.commands)
  /\ \/ /\ pending.uncertain \/ job.known
        /\ Faulty /\ Fault /\ KeepPending
        /\ UNCHANGED <<pending, surface>>
     \/ /\ NoFault /\ pending' = NoMutation /\ Route
        /\ Return(IF pending.uncertain \/ job.known THEN from_projection(rows)
                  ELSE apply_mutation(rt, pending.effect), TRUE)
  /\ UNCHANGED <<rows, receipts, live, news, again, minted, menu>>

-----------------------------------------------------------------------------
(* The items of a handler's list.                                          *)

First == Head(job.todo)
Rest == Tail(job.todo)
AtItem(t) == Running /\ job.pc = "next" /\ job.todo # <<>> /\ First.t = t

\* close_retired_workspace_pane reads the binding of the pane id it was given.
PaneBindingOf(pane) ==
  IF pane \in DOMAIN rt.bindings
  THEN [node |-> rt.bindings[pane].node, session |-> rt.bindings[pane].session] ELSE NoBinding
ItemBinding == IF First.t = "pane" THEN PaneBindingOf(First.pane) ELSE First.binding
ItemPane == IF First.t = "pane" THEN {First.pane} ELSE panes_for_node(rt, First.binding.node)

close_retired_workspace_pane ==
  /\ AtItem("pane") \/ AtItem("binding")
  /\ LET b == ItemBinding IN
     IF b.node = NoNode \/ b.session = None
     THEN /\ job' = Todo(Rest, job.changed) /\ UNCHANGED <<retired, pending, minted>>
     ELSE IF \A p \in ItemPane : session_for_pane(rt, p) # b.session
     THEN /\ retired' = retired \ {b}
          /\ job' = Todo(Rest, job.changed \/ ItemPane = {})
          /\ UNCHANGED <<pending, minted>>
     ELSE IF pending # NoMutation
     THEN /\ retired' = AfterClose(rt, b)
          /\ job' = Todo(Rest, job.changed) /\ UNCHANGED <<pending, minted>>
     ELSE /\ submit_workspace_mutation(plan_close_pane(CHOOSE p \in ItemPane : TRUE), "stay", b,
                                       Rest, job.changed)
          /\ UNCHANGED retired
  /\ UNCHANGED <<rows, receipts, live, news, rt, again, surface, used, menu>>

Items(set, Item(_), key(_)) ==
  LET order == SetToSortSeq(set, LAMBDA a, b : key(a) < key(b))
  IN  [i \in DOMAIN order |-> Item(order[i])]

retry_retired_workspace_bindings ==
  /\ AtItem("retry")
  /\ \/ /\ retired = {} \/ (Faulty /\ retired # {})
        /\ IF retired = {} THEN NoFault ELSE Fault
        /\ job' = Todo(Rest, job.changed) /\ UNCHANGED rt
     \/ /\ retired # {} /\ NoFault
        /\ rt' = from_projection(rows)
        /\ job' = Todo(Items(retired, BindingItem, LAMBDA b : b.node) \o Rest, job.changed)
  /\ UNCHANGED <<rows, receipts, live, news, pending, retired, again, surface, minted, menu>>

\* The panes the active tab shows are attached again; one whose lifetime ended
\* is retired.  A transport that fails is tried again on the next tick.
restart_workspace_streams ==
  /\ AtItem("restart") \/ AtItem("restart?")
  /\ IF First.t = "restart?" /\ ~job.changed /\ ~again
     THEN job' = Todo(Rest, FALSE) /\ NoFault /\ UNCHANGED again
     ELSE \/ /\ Faulty /\ Fault /\ again' = TRUE /\ job' = Todo(Rest, FALSE)
          \/ /\ NoFault /\ again' = FALSE
             /\ job' = Todo(Items({p \in visible_bound_panes(rt) : session_for_pane(rt, p) \notin live},
                                  PaneItem, LAMBDA p : p) \o Rest, FALSE)
  /\ UNCHANGED <<rows, receipts, live, news, rt, pending, retired, surface, minted, menu>>

EndHandler ==
  /\ Running /\ job.pc = "next" /\ job.todo = <<>>
  /\ job' = NoJob
  /\ UNCHANGED <<rows, receipts, live, news, rt, pending, retired, again, surface, minted, used,
                 menu>>

-----------------------------------------------------------------------------
(* What wakes the loop.                                                    *)

TickDue == Running /\ Quiet /\ (pending # NoMutation \/ retired # {} \/ again)
BatchDue == Running /\ Quiet /\ news # Empty

Tick ==
  /\ TickDue
  /\ job' = IF pending # NoMutation THEN Submitting(NoBinding, <<Retry, RestartIfChanged>>, FALSE)
            ELSE Todo(<<Retry, RestartIfChanged>>, FALSE)
  /\ UNCHANGED <<rows, receipts, live, news, rt, pending, retired, again, surface, minted, used,
                 menu>>

EventBatch ==
  /\ BatchDue
  /\ news' = Empty
  /\ rt' = IF news.nodes /\ ~matches_projection(rows) THEN from_projection(rows) ELSE rt
  /\ job' = Todo(Items(UNION {panes_for_session(rt', s) : s \in news.ended}, PaneItem,
                       LAMBDA p : p) \o <<Restart>>, FALSE)
  /\ UNCHANGED <<rows, receipts, live, pending, retired, again, surface, minted, used, menu>>

ActAllowed == Running /\ Quiet /\ used.acts < menu.acts
OneAct == used' = [used EXCEPT !.acts = @ + 1]

\* A plan the runtime refuses is an internal failure, which ends the loop.
MutateWorkspace ==
  /\ ActAllowed /\ surface = "attach"
  /\ \E action \in menu.actions \ HostActions :
       LET plan == plan_action(action) IN
       IF plan = Refusal
       THEN surface' = "exited" /\ UNCHANGED <<pending, minted, job>>
       ELSE IF pending # NoMutation
       THEN job' = Todo(<<Restart>>, FALSE) /\ UNCHANGED <<pending, minted, surface>>
       ELSE /\ submit_workspace_mutation(plan, "stay", NoBinding, <<Restart>>, FALSE)
            /\ UNCHANGED surface
  /\ OneAct
  /\ UNCHANGED <<rows, receipts, live, news, rt, retired, again, menu>>

apply_host_action ==
  /\ ActAllowed /\ surface = "attach"
  /\ \E action \in menu.actions \cap HostActions :
       /\ rt' = [rt EXCEPT !.state = apply(@, action, Area)]
       /\ job' = IF action \in {"NextTab", "PreviousTab", "NextWorkspace", "PreviousWorkspace",
                                "SelectTab"}
                 THEN Todo(<<Restart>>, FALSE) ELSE NoJob
  /\ OneAct
  /\ UNCHANGED <<rows, receipts, live, news, pending, retired, again, surface, minted, menu>>

\* The lifetime is read as running and current; a refused plan is a notice.
bind_workspace_session ==
  /\ ActAllowed /\ surface = "lifetimes"
  /\ \E s \in live :
       LET plan == plan_bind(s) IN
       IF plan = Refusal \/ (plan.commands # <<>> /\ pending # NoMutation)
       THEN UNCHANGED <<pending, minted, job, surface>>
       ELSE IF plan.commands = <<>>
       THEN /\ surface' = "attach" /\ job' = Todo(<<Restart>>, FALSE)
            /\ UNCHANGED <<pending, minted>>
       ELSE /\ submit_workspace_mutation(plan, "attach", NoBinding, <<Restart>>, FALSE)
            /\ UNCHANGED surface
  /\ OneAct
  /\ UNCHANGED <<rows, receipts, live, news, rt, retired, again, menu>>

LeaveWorkspace ==
  /\ ActAllowed /\ surface = "attach" /\ "LeaveWorkspace" \in menu.leave
  /\ surface' = "lifetimes" /\ OneAct
  /\ UNCHANGED <<rows, receipts, live, news, rt, pending, retired, again, job, minted, menu>>

\* Another client of the kernel edits the arrangement.
OtherClient ==
  /\ used.others < menu.others
  /\ used' = [used EXCEPT !.others = @ + 1]
  /\ \E c \in {Command("close", n, None, NoNode, None, rows[n].version) : n \in DOMAIN rows}
              \cup {create(minted.node + 1, "pane", n, None) : n \in DOMAIN rows}
              \cup {Command("rebind", n, None, NoNode, s, rows[n].version) :
                      n \in {m \in DOMAIN rows : rows[m].kind = "pane"}, s \in live} :
       /\ c.do \in menu.edits /\ Accepts(c)
       /\ rows' = After(c)
       /\ minted' = [minted EXCEPT !.node = IF c.do = "create" THEN @ + 1 ELSE @]
  /\ news' = [news EXCEPT !.nodes = TRUE]
  /\ UNCHANGED <<receipts, live, rt, pending, retired, again, surface, job, menu>>

SessionEnds ==
  /\ \E s \in live \cap menu.ends :
       live' = live \ {s} /\ news' = [news EXCEPT !.ended = @ \cup {s}]
  /\ UNCHANGED <<rows, receipts, rt, pending, retired, again, surface, job, minted, used, menu>>

Handler == \/ SubmitOk \/ SubmitUncertain \/ SubmitRefused \/ FinishMutation
           \/ close_retired_workspace_pane \/ retry_retired_workspace_bindings
           \/ restart_workspace_streams \/ EndHandler
Operator == MutateWorkspace \/ apply_host_action \/ bind_workspace_session \/ LeaveWorkspace
Next == Handler \/ Tick \/ EventBatch \/ Operator \/ OtherClient \/ SessionEnds

\* A handler runs to its end; the loop's select polls the clock and the stream.
\* Weak fairness, with each action's guard written out for its ENABLED.
Fairness ==
  /\ []<>(Quiet \/ ~Running) \/ []<><<Handler>>_<<wvars, menu>>
  /\ []<>~TickDue \/ []<><<Tick>>_<<wvars, menu>>
  /\ []<>~BatchDue \/ []<><<EventBatch>>_<<wvars, menu>>
Spec == Init /\ [][Next]_<<wvars, menu>> /\ Fairness

-----------------------------------------------------------------------------
Settled == Running /\ Quiet /\ pending = NoMutation /\ news = Empty

AllTabs == FlatMap(LAMBDA w : w.tabs, rt.state.workspaces)
AllPanes == FlatMap(LAMBDA t : pane_ids(t.root), AllTabs)

RECURSIVE WellFormed(_)
WellFormed(node) ==
  IsLeaf(node) \/ (/\ Len(node.parts) >= 2
                   /\ \A i \in DOMAIN node.parts : /\ node.parts[i].weight >= 1
                                                   /\ WellFormed(node.parts[i].node))

Covers(r, x, y) == x >= r.x /\ x < r.x + r.w /\ y >= r.y /\ y < r.y + r.h
Tiles(tab) ==
  LET rects == pane_rects(tab.root, Area) IN
  \A x \in Area.x .. (Area.x + Area.w - 1), y \in Area.y .. (Area.y + Area.h - 1) :
     Cardinality({i \in DOMAIN rects : Covers(rects[i].rect, x, y)}) = 1

\* Whatever was split, resized, closed and rebuilt, in any order: no split is
\* left with one part, no share reaches zero, no pane id appears twice, every
\* tab's focus is one of its own panes, and the panes of a tab cover its area
\* with neither a gap nor an overlap (the solver's rounding, mod.rs).
LayoutSound ==
  /\ \A i \in DOMAIN AllTabs :
       /\ WellFormed(AllTabs[i].root)
       /\ contains_pane(AllTabs[i].root, AllTabs[i].focus)
       /\ Tiles(AllTabs[i])
  /\ \A i, j \in DOMAIN AllPanes : AllPanes[i] = AllPanes[j] => i = j
  /\ \A i \in DOMAIN AllPanes : AllPanes[i] < rt.state.next_pane

\* Once nothing is in flight and every event has been delivered, the versions,
\* parents and lifetimes this client would plan its next command against are
\* the kernel's: after other clients' edits, unknown outcomes and their
\* retries (matches_projection, resume_workspace_mutation).
FactsAreRows == Settled => rt.facts = FactsOf(rows)

\* Every row the kernel can hold finds its place when a client rebuilds its
\* arrangement: nothing it admits is an orphan to reproduce.
NothingIgnored == reproduce(rows).ignored = {}

NoneEnded == surface = "exited" \/ \A p \in visible_bound_panes(rt) : session_for_pane(rt, p) \in live

=============================================================================

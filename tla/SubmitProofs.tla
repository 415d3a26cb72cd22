---------------------------- MODULE SubmitProofs ----------------------------
(***************************************************************************)
(* Proofs about Submit, for any menus of well-formed commands, any callers *)
(* and any clock.                                                          *)
(*                                                                         *)
(* The argument: a step lands one command, opens the log, pages, refuses   *)
(* or changes nothing (StepCases), so an aggregate's versions run up to    *)
(* the highest and the log begins with the events that open it (LogInv).   *)
(* A live grant is an event no later one revokes (GrantsLive), so what     *)
(* landed under a grant row was covered on the log (Authorised).  A        *)
(* receipt, a delivery row and a page each name the event they came with   *)
(* (ReceiptsTruthful, DeliveryInv, PageInv).  A row has its aggregate's    *)
(* highest version (VersionInv), a cursor is the newest checkpoint on the  *)
(* log (CursorInv), and each workspace node sits under a node of the kind  *)
(* its own allows, with no set of nodes closed under parents (TreeInv).    *)
(***************************************************************************)
EXTENDS Submit, TLAPS

TableNames ==
    {"task", "attempt", "engine_session", "lease", "worktree", "dispatch_node", "message",
     "command", "gate", "evidence", "cost_entry", "authority_grant", "attention_item",
     "workspace_node", "workflow_run", "pty_session", "pty_session_template",
     "ingested_record"}

InsertKinds ==
    {"create_task", "create_attempt", "open_engine_session", "acquire_lease",
     "register_worktree", "register_dispatch_node", "send_message", "issue_command",
     "open_gate", "record_evidence", "record_cost_entry", "grant_authority",
     "raise_attention", "create_workspace_node", "open_workflow_run", "open_pty_session",
     "declare_pty_session_template", "ingest_record"}

LEMMA TablesDomain == DOMAIN Tables = TableNames
  BY Zenon DEF Tables, TableNames

LEMMA TablesAt ==
    /\ Tables["task"] = task /\ Tables["attempt"] = attempt
    /\ Tables["engine_session"] = engine_session /\ Tables["lease"] = lease
    /\ Tables["worktree"] = worktree /\ Tables["dispatch_node"] = dispatch_node
    /\ Tables["message"] = message /\ Tables["command"] = command /\ Tables["gate"] = gate
    /\ Tables["evidence"] = evidence /\ Tables["cost_entry"] = cost_entry
    /\ Tables["authority_grant"] = authority_grant
    /\ Tables["attention_item"] = attention_item
    /\ Tables["workspace_node"] = workspace_node
    /\ Tables["workflow_run"] = workflow_run /\ Tables["pty_session"] = pty_session
    /\ Tables["pty_session_template"] = pty_session_template
    /\ Tables["ingested_record"] = ingested_record
  BY Zenon DEF Tables

LEMMA InsertsAre == Inserts = InsertKinds
<1>1. ASSUME NEW k \in Inserts PROVE k \in InsertKinds
  <2>1. PICK t \in TableNames : k \in Tables[t].insert
    BY TablesDomain, Zenon DEF Inserts
  <2> QED
    BY <2>1, TablesAt DEF TableNames, InsertKinds, Table, task, attempt, engine_session, lease,
       worktree, dispatch_node, message, command, gate, evidence, cost_entry, authority_grant,
       attention_item, workspace_node, workflow_run, pty_session, pty_session_template,
       ingested_record
<1>2. ASSUME NEW k \in InsertKinds PROVE \E t \in TableNames : k \in Tables[t].insert
    BY TablesAt DEF TableNames, InsertKinds, Table, task, attempt, engine_session, lease,
       worktree, dispatch_node, message, command, gate, evidence, cost_entry, authority_grant,
       attention_item, workspace_node, workflow_run, pty_session, pty_session_template,
       ingested_record
<1> QED
  BY <1>1, <1>2, TablesDomain, Zenon DEF Inserts

\* No command stamps or starts a row with the marker of an absent one; only nodes of
\* the workspace are removed or moved; the kinds without a table are in none.
LEMMA TableFacts ==
    \A t \in TableNames :
        /\ Tables[t].initial # "absent"
        /\ \A p \in Tables[t].stamp : p[2] # "absent" /\ p[1] \notin Tables[t].move
        /\ t # "workspace_node" =>
            Tables[t].remove = {} /\ {"move_workspace_node", "close_workspace_node"} \cap KindsOf(t) = {}
        /\ {UpsertKind, "genesis", "activate_kernel", "request_pty_session_start"} \cap KindsOf(t) = {}
  BY TablesAt, SMTT(30) DEF TableNames, KindsOf, UpsertKind, Table, task, attempt, engine_session, lease, worktree,
       dispatch_node, message, command, gate, evidence, cost_entry, authority_grant,
       attention_item, workspace_node, workflow_run, pty_session, pty_session_template,
       ingested_record

LEMMA GrantTable ==
    /\ KindsOf("authority_grant") = {"grant_authority", "revoke_authority"}
    /\ Tables["authority_grant"].initial = "live"
    /\ Tables["authority_grant"].move = {} /\ Tables["authority_grant"].remove = {}
    /\ Tables["authority_grant"].stamp = {<<"revoke_authority", "revoked">>}
  BY TablesAt DEF KindsOf, Table, authority_grant

LEMMA AttentionTable ==
    /\ KindsOf("attention_item") =
         {"raise_attention", "resolve_attention", "ack_attention", "mute_attention", "unmute_attention"}
    /\ Tables["attention_item"].initial = "open" /\ ~Tables["attention_item"].versioned
    /\ Tables["attention_item"].move = {} /\ Tables["attention_item"].remove = {}
    /\ Tables["attention_item"].stamp = {<<"resolve_attention", "resolved">>}
  BY TablesAt DEF KindsOf, Table, attention_item

LEMMA WorkspaceTable ==
    /\ KindsOf("workspace_node") =
         {"create_workspace_node", "move_workspace_node", "rebind_workspace_pane", "close_workspace_node"}
    /\ Tables["workspace_node"].initial = "placed" /\ Tables["workspace_node"].versioned
    /\ Tables["workspace_node"].move = {} /\ Tables["workspace_node"].stamp = {}
    /\ Tables["workspace_node"].remove = {"close_workspace_node"}
  BY TablesAt DEF KindsOf, Table, workspace_node

LEMMA RemovesAre == Removes = {"close_workspace_node"}
<1>1. ASSUME NEW k \in Removes PROVE k = "close_workspace_node"
  <2>1. PICK t \in TableNames : k \in Tables[t].remove
    BY TablesDomain, Zenon DEF Removes
  <2> QED
    BY <2>1, TableFacts, WorkspaceTable, Zenon
<1>2. "close_workspace_node" \in Tables["workspace_node"].remove /\ "workspace_node" \in TableNames
  BY WorkspaceTable, Zenon DEF TableNames
<1> QED
  BY <1>1, <1>2, TablesDomain, Zenon DEF Removes

\* The state after a kind that neither moves nor stamps it, and after the two stamps
\* other rules read.
LEMMA Unstamped ==
    ASSUME NEW t, NEW k, NEW to, NEW s, k \notin Tables[t].move,
           \A p \in Tables[t].stamp : p[1] # k
    PROVE  StateAfter(t, k, to, s) = s
  BY Zenon DEF StateAfter

LEMMA StampedStates ==
    ASSUME NEW to, NEW s
    PROVE  /\ StateAfter("authority_grant", "revoke_authority", to, s) = "revoked"
           /\ StateAfter("attention_item", "resolve_attention", to, s) = "resolved"
<1>1. StateAfter("authority_grant", "revoke_authority", to, s) = "revoked"
  <2> DEFINE S == Tables["authority_grant"].stamp
             q == CHOOSE p \in S : p[1] = "revoke_authority"
  <2>1. S = {<<"revoke_authority", "revoked">>} /\ Tables["authority_grant"].move = {}
    BY GrantTable, Zenon
  <2>2. (\E p \in S : p[1] = "revoke_authority") /\ q = <<"revoke_authority", "revoked">>
    BY <2>1, Zenon
  <2>3. "revoke_authority" \notin Tables["authority_grant"].move
    BY <2>1, Zenon
  <2>4. StateAfter("authority_grant", "revoke_authority", to, s) = q[2]
    BY <2>2, <2>3, Zenon DEF StateAfter
  <2> HIDE DEF q
  <2> QED
    BY <2>2, <2>4, Zenon
<1>2. StateAfter("attention_item", "resolve_attention", to, s) = "resolved"
  <2> DEFINE S == Tables["attention_item"].stamp
             q == CHOOSE p \in S : p[1] = "resolve_attention"
  <2>1. S = {<<"resolve_attention", "resolved">>} /\ Tables["attention_item"].move = {}
    BY AttentionTable, Zenon
  <2>2. (\E p \in S : p[1] = "resolve_attention") /\ q = <<"resolve_attention", "resolved">>
    BY <2>1, Zenon
  <2>3. "resolve_attention" \notin Tables["attention_item"].move
    BY <2>1, Zenon
  <2>4. StateAfter("attention_item", "resolve_attention", to, s) = q[2]
    BY <2>2, <2>3, Zenon DEF StateAfter
  <2> HIDE DEF q
  <2> QED
    BY <2>2, <2>4, Zenon
<1> QED
  BY <1>1, <1>2, Zenon

\* The first half of a command's route names the table of its kind.
LEMMA RouteOfKind ==
    ASSUME NEW c, c.payload.kind \in Kinds
    PROVE  LET k == c.payload.kind  t == route_of(c)[1] IN
           /\ route_of(c) = <<t, route_of(c)[2]>>
           /\ \/ t = "kernel" /\ k = "activate_kernel" /\ route_of(c) = KernelAggregate
              \/ t = "pty_session_start" /\ k = "request_pty_session_start"
              \/ t = "orchestrator_checkpoint" /\ k = UpsertKind
              \/ t \in TableNames /\ k \in KindsOf(t)
<1> DEFINE k == c.payload.kind
<1>1. route_of(c) = <<aggregate_type(k), route_of(c)[2]>> /\ route_of(c)[1] = aggregate_type(k)
  BY Zenon DEF route_of
<1>2. CASE k = "activate_kernel"
  BY <1>1, <1>2, Zenon DEF aggregate_type, route_of, UpsertKind, KernelAggregate
<1>3. CASE k = "request_pty_session_start"
  BY <1>1, <1>3, Zenon DEF aggregate_type, UpsertKind
<1>4. CASE k = UpsertKind
  BY <1>1, <1>4, Zenon DEF aggregate_type, UpsertKind
<1>5. CASE k \notin {UpsertKind, "activate_kernel", "request_pty_session_start"}
  <2>1. aggregate_type(k) = TableOf[k]
    BY <1>5, Zenon DEF aggregate_type, UpsertKind
  <2>2. k \in UNION {KindsOf(t) : t \in DOMAIN Tables}
    BY <1>5, Zenon DEF Kinds
  <2>3. TableOf[k] = CHOOSE t \in DOMAIN Tables : k \in KindsOf(t)
    BY <2>2, Zenon DEF TableOf
  <2>4. \E t \in DOMAIN Tables : k \in KindsOf(t)
    BY <2>2, Zenon
  <2>5. TableOf[k] \in DOMAIN Tables /\ k \in KindsOf(TableOf[k])
    BY <2>3, <2>4, Zenon
  <2> QED
    BY <1>1, <2>1, <2>5, TablesDomain, Zenon
<1> QED
  BY <1>2, <1>3, <1>4, <1>5, Zenon
-----------------------------------------------------------------------------
(***************************************************************************)
(* The shape of the state, and what a submission that lands writes.        *)
(***************************************************************************)
RowShape(r) == r = [version |-> r.version, state |-> r.state, key |-> r.key, body |-> r.body]

TypeInv ==
    /\ menu \in DOMAIN Menus
    /\ log \in Seq(Events)
    /\ rows = [a \in AggregatesOf[menu] |-> rows[a]]
    /\ \A a \in DOMAIN rows : a = <<a[1], a[2]>> /\ RowShape(rows[a])

\* The row of a command's aggregate after its event, by kind.
Written(c, v) ==
    LET a == route_of(c)
        t == a[1]
        k == c.payload.kind
    IN  \/ t \in Rowless /\ k \in {"activate_kernel", "request_pty_session_start"} /\ rows'[a] = rows[a]
        \/ /\ t = "orchestrator_checkpoint" /\ k = UpsertKind
           /\ rows'[a] = Unkeyed("latest", c.payload.arg)
        \/ /\ t \in TableNames /\ k \in KindsOf(t) /\ k \in InsertKinds /\ ~Present(rows, a)
           /\ k = "raise_attention" =>
                unresolved_attention(rows, c.payload.arg.topic, c.payload.arg.subject) = {}
           /\ rows'[a] = [version |-> RowVersion(t, v + 1), state |-> Tables[t].initial,
                          key |-> c.key, body |-> c.payload.arg]
        \/ /\ t \in TableNames /\ k \in KindsOf(t) /\ k \notin InsertKinds /\ Present(rows, a)
           /\ \/ k \in Removes /\ Unreferenced(rows, a) /\ rows'[a] = NoRow
              \/ /\ k \notin Removes /\ k = "move_workspace_node"
                 /\ rows'[a] = [version |-> v + 1, state |-> rows[a].state, key |-> rows[a].key,
                                body |-> [rows[a].body EXCEPT !.parent = c.payload.arg.parent]]
              \/ /\ k \notin Removes /\ k # "move_workspace_node"
                 /\ rows'[a] = [version |-> RowVersion(t, v + 1),
                                state |-> StateAfter(t, k, c.payload.to, rows[a].state),
                                key |-> rows[a].key, body |-> rows[a].body]

LEMMA RowAfterUpsert ==
    ASSUME NEW r, NEW e, e.payload.kind = UpsertKind, e.payload.kind \notin Inserts,
           e.payload.kind \notin Removes, e.payload.kind # "move_workspace_node"
    PROVE  RowAfter(r, e) = Unkeyed("latest", e.payload.arg)
  BY Zenon DEF RowAfter

LEMMA RouteInRows ==
    ASSUME TypeInv, NEW c \in Menus[menu]
    PROVE  route_of(c) \in DOMAIN rows /\ c.payload.kind \in Kinds /\ WellFormed(c)
<1>1. AggregatesOf[menu] =
        {KernelAggregate} \cup {route_of(d) : d \in Menus[menu]}
            \cup (UNION {d.payload.refs : d \in Menus[menu]})
            \cup {PageId(class_of(d.payload), route_of(d)) : d \in Menus[menu]}
  BY Zenon DEF TypeInv, AggregatesOf
<1>2. route_of(c) \in AggregatesOf[menu]
  BY <1>1, Zenon
<1>3. WellFormed(c)
  BY SubmitAssumption, Zenon DEF TypeInv
<1> QED
  BY <1>2, <1>3, Zenon DEF TypeInv, WellFormed

LEMMA Land ==
    ASSUME TypeInv, NEW c \in Menus[menu], NEW v \in Nat,
           Projectable(rows, build_event(c, v)), rows' = apply_event(rows, build_event(c, v))
    PROVE  /\ rows' = [b \in AggregatesOf[menu] |-> rows'[b]]
           /\ \A b \in DOMAIN rows : b # route_of(c) => rows'[b] = rows[b]
           /\ Written(c, v)
<1> DEFINE a == route_of(c)
           t == a[1]
           k == c.payload.kind
           e == build_event(c, v)
<1>1. e.payload = c.payload /\ e.aggregate = a /\ e.version = v + 1 /\ e.key = c.key
  BY Zenon DEF build_event
<1>2. a \in DOMAIN rows /\ k \in Kinds /\ RowShape(rows[a]) /\ DOMAIN rows = AggregatesOf[menu]
  BY RouteInRows, Zenon DEF TypeInv
<1>3. \/ t = "kernel" /\ k = "activate_kernel"
      \/ t = "pty_session_start" /\ k = "request_pty_session_start"
      \/ t = "orchestrator_checkpoint" /\ k = UpsertKind
      \/ t \in TableNames /\ k \in KindsOf(t)
  BY <1>2, RouteOfKind, Zenon
<1>4. CASE t \in Rowless
  <2>1. rows' = rows
    BY <1>1, <1>4, Zenon DEF apply_event
  <2>2. k \in {"activate_kernel", "request_pty_session_start"}
    BY <1>3, <1>4, Zenon DEF Rowless, TableNames
  <2> QED
    BY <1>4, <2>1, <2>2, Zenon DEF TypeInv, Written
<1>5. CASE t \notin Rowless
  <2> DEFINE R == RowAfter(rows[a], e)
  <2>1. rows' = [rows EXCEPT ![a] = R]
    BY <1>1, <1>5, Zenon DEF apply_event
  <2>2. /\ rows' = [b \in AggregatesOf[menu] |-> rows'[b]]
        /\ \A b \in DOMAIN rows : b # a => rows'[b] = rows[b]
        /\ rows'[a] = R
    BY <1>2, <2>1, Zenon DEF TypeInv
  <2>3. CASE t = "orchestrator_checkpoint"
    <3>1. k = UpsertKind
      BY <1>3, <2>3, Zenon DEF TableNames
    <3>2. k \notin Inserts /\ k # "move_workspace_node" /\ k \notin Removes
      BY <3>1, InsertsAre, RemovesAre, Zenon DEF InsertKinds, UpsertKind
    <3>4. R = Unkeyed("latest", c.payload.arg)
      <4> HIDE DEF e
      <4> QED
        BY <1>1, <3>1, <3>2, RowAfterUpsert, Zenon
    <3> QED
      BY <2>2, <2>3, <3>1, <3>4, Zenon DEF Written
  <2>4. CASE t \in TableNames
    <3>1. k \in KindsOf(t) /\ k # UpsertKind
      BY <1>3, <2>4, TableFacts, Zenon DEF TableNames
    <3>5. /\ k \in Inserts => k \notin Removes /\ k # "move_workspace_node"
          /\ k \in Removes => k # "move_workspace_node"
      BY InsertsAre, RemovesAre, Zenon DEF InsertKinds
    <3>2. CASE k \in Inserts
      <4>1. R = [version |-> RowVersion(t, v + 1), state |-> Tables[t].initial,
                 key |-> c.key, body |-> c.payload.arg]
        BY <1>1, <3>1, <3>2, <3>5, Zenon DEF RowAfter
      <4> QED
        BY <1>1, <2>2, <2>4, <3>1, <3>2, <4>1, InsertsAre, Zenon DEF Written, Projectable, TableNames, Rowless
    <3>3. CASE k \notin Inserts
      <4>1. Present(rows, a) /\ (k \in Removes => Unreferenced(rows, a))
        BY <1>1, <2>4, <3>3, Zenon DEF Projectable, TableNames, Rowless
      <4>2. CASE k \in Removes
        <5>1. R = NoRow
          BY <1>1, <3>1, <3>3, <3>5, <4>2, Zenon DEF RowAfter
        <5> QED
          BY <2>2, <2>4, <3>1, <3>3, <4>1, <4>2, <5>1, InsertsAre, Zenon DEF Written
      <4>3. CASE k \notin Removes /\ k = "move_workspace_node"
        <5>1. R = [rows[a] EXCEPT !.version = v + 1,
                                  !.body = [rows[a].body EXCEPT !.parent = c.payload.arg.parent]]
          BY <1>1, <3>1, <3>3, <4>3, Zenon DEF RowAfter
        <5>2. R = [version |-> v + 1, state |-> rows[a].state, key |-> rows[a].key,
                   body |-> [rows[a].body EXCEPT !.parent = c.payload.arg.parent]]
          BY <1>2, <5>1, Zenon DEF RowShape
        <5> QED
          BY <2>2, <2>4, <3>1, <3>3, <4>1, <4>3, <5>2, InsertsAre, Zenon DEF Written
      <4>4. CASE k \notin Removes /\ k # "move_workspace_node"
        <5>1. R = [rows[a] EXCEPT !.version = RowVersion(t, v + 1),
                                  !.state = StateAfter(t, k, c.payload.to, rows[a].state)]
          BY <1>1, <3>1, <3>3, <4>4, Zenon DEF RowAfter
        <5>2. R = [version |-> RowVersion(t, v + 1),
                   state |-> StateAfter(t, k, c.payload.to, rows[a].state),
                   key |-> rows[a].key, body |-> rows[a].body]
          BY <1>2, <5>1, Zenon DEF RowShape
        <5> QED
          BY <2>2, <2>4, <3>1, <3>3, <4>1, <4>4, <5>2, InsertsAre, Zenon DEF Written
      <4> QED
        BY <4>2, <4>3, <4>4, Zenon
    <3> QED
      BY <3>2, <3>3, Zenon
  <2> QED
    BY <1>3, <1>5, <2>2, <2>3, <2>4, Zenon DEF Rowless
<1> QED
  BY <1>4, <1>5, Zenon

\* The commit of a command's event over version v of its aggregate.
Lands(c, v) ==
    /\ New(c) /\ ~Pages(c) /\ decide(c, v)
    /\ current_aggregate_version(route_of(c)) = v
    /\ Projectable(rows, build_event(c, v))
    /\ rows' = apply_event(rows, build_event(c, v))
    /\ log' = Append(log, build_event(c, v))
    /\ IF evaluate(c) = "none" THEN UNCHANGED receipt
       ELSE write_receipt(receipt_for(c, evaluate(c), "none"))
    /\ InsertDelivery(c) /\ UNCHANGED now

LEMMA AppliedLands ==
    ASSUME NEW c, Applied(c)
    PROVE  \E v \in 0 .. Len(log) : Lands(c, v)
  BY Zenon DEF Applied, Lands

LEMMA AppendFacts ==
    ASSUME log \in Seq(Events), NEW e, log' = Append(log, e)
    PROVE  /\ Len(log) \in Nat /\ DOMAIN log = 1 .. Len(log)
           /\ Len(log') = Len(log) + 1 /\ DOMAIN log' = 1 .. Len(log) + 1
           /\ \A i \in 1 .. Len(log) : log'[i] = log[i]
           /\ log'[Len(log) + 1] = e
           /\ Events' = Events \cup {e}
           /\ log' \in Seq(Events')
<1> DEFINE E == Events
           F == Events \cup {e}
<1>1. log \in Seq(F) /\ e \in F
  <2>1. E \subseteq F /\ log \in Seq(E)
    BY Zenon
  <2> HIDE DEF E, F
  <2>2. log \in Seq(F)
    BY <2>1
  <2> QED
    BY <2>2, Zenon DEF F
<1> HIDE DEF F
<1>2. /\ Len(log) \in Nat /\ DOMAIN log = 1 .. Len(log)
      /\ Append(log, e) \in Seq(F)
      /\ Len(Append(log, e)) = Len(log) + 1
      /\ DOMAIN Append(log, e) = 1 .. Len(log) + 1
      /\ \A i \in 1 .. Len(log) : Append(log, e)[i] = log[i]
      /\ Append(log, e)[Len(log) + 1] = e
  BY <1>1
<1>3. Events' = F
  BY <1>2 DEF Events, F
<1> QED
  BY <1>2, <1>3, Zenon DEF F

\* What a page writes: nothing where the operator has been asked already, else an
\* open item.
LEMMA PagedRows ==
    ASSUME TypeInv, NEW c \in Menus[menu], paged(c)
    PROVE  LET p == PageId(class_of(c.payload), route_of(c)) IN
           /\ rows' = [b \in AggregatesOf[menu] |-> rows'[b]]
           /\ p \in DOMAIN rows /\ p[1] = "attention_item"
           /\ \A b \in DOMAIN rows : b # p => rows'[b] = rows[b]
           /\ \/ rows' = rows /\ unresolved_attention(rows, "authority", route_of(c)) # {}
              \/ /\ ~Present(rows, p)
                 /\ unresolved_attention(rows, "authority", route_of(c)) = {}
                 /\ rows'[p] = Unkeyed("open", [topic |-> "authority", subject |-> route_of(c)])
<1> DEFINE p == PageId(class_of(c.payload), route_of(c))
           R == Unkeyed("open", [topic |-> "authority", subject |-> route_of(c)])
<1>1. AggregatesOf[menu] =
        {KernelAggregate} \cup {route_of(d) : d \in Menus[menu]}
            \cup (UNION {d.payload.refs : d \in Menus[menu]})
            \cup {PageId(class_of(d.payload), route_of(d)) : d \in Menus[menu]}
  BY Zenon DEF TypeInv, AggregatesOf
<1>2. p \in AggregatesOf[menu] /\ DOMAIN rows = AggregatesOf[menu]
  BY <1>1, Zenon DEF TypeInv
<1>3. p[1] = "attention_item"
  BY Zenon DEF PageId
<1>5. CASE unresolved_attention(rows, "authority", route_of(c)) # {}
  <2>1. rows' = rows
    BY <1>5, Zenon DEF paged
  <2> QED
    BY <1>2, <1>3, <1>5, <2>1, Zenon DEF TypeInv
<1>6. CASE unresolved_attention(rows, "authority", route_of(c)) = {}
  <2>1. rows' = [rows EXCEPT ![p] = R]
    BY <1>6, Zenon DEF paged
  <2>2. ~Present(rows, p)
    BY <1>6, Zenon DEF paged, PageInsertable
  <2> HIDE DEF p, R
  <2>3. /\ rows' = [b \in AggregatesOf[menu] |-> rows'[b]]
        /\ \A b \in DOMAIN rows : b # p => rows'[b] = rows[b]
        /\ rows'[p] = R
    BY <1>2, <2>1, Zenon DEF TypeInv
  <2> QED
    BY <1>2, <1>3, <1>6, <2>2, <2>3, Zenon DEF p, R
<1> QED
  BY <1>5, <1>6, Zenon

LEMMA InitType == Init => TypeInv
<1> SUFFICES ASSUME Init PROVE TypeInv
  BY Zenon
<1>1. log \in Seq(Events)
  BY DEF Init, Events
<1>2. /\ menu \in DOMAIN Menus /\ DOMAIN rows = AggregatesOf[menu]
      /\ rows = [a \in AggregatesOf[menu] |-> rows[a]]
      /\ \A a \in AggregatesOf[menu] : rows[a] = NoRow
  BY Zenon DEF Init
<1>3. RowShape(NoRow)
  BY Zenon DEF RowShape, NoRow, Unkeyed
<1>4. \A a \in AggregatesOf[menu] : a = <<a[1], a[2]>>
  <2>1. AggregatesOf[menu] =
        {KernelAggregate} \cup {route_of(d) : d \in Menus[menu]}
            \cup (UNION {d.payload.refs : d \in Menus[menu]})
            \cup {PageId(class_of(d.payload), route_of(d)) : d \in Menus[menu]}
    BY <1>2, Zenon DEF AggregatesOf
  <2>2. \A d \in Menus[menu] : route_of(d) = <<route_of(d)[1], route_of(d)[2]>>
    BY Zenon DEF route_of
  <2>3. \A d \in Menus[menu] : \A a \in d.payload.refs : a = <<a[1], a[2]>>
    BY <1>2, SubmitAssumption, Zenon DEF WellFormed
  <2>4. \A x, y : PageId(x, y) = <<PageId(x, y)[1], PageId(x, y)[2]>>
    BY Zenon DEF PageId
  <2>5. KernelAggregate = <<KernelAggregate[1], KernelAggregate[2]>>
    BY Zenon DEF KernelAggregate
  <2> QED
    BY <2>1, <2>2, <2>3, <2>4, <2>5
<1> QED
  BY <1>1, <1>2, <1>3, <1>4, Zenon DEF TypeInv

LEMMA RowShapes ==
    ASSUME NEW w, NEW s, NEW k, NEW b
    PROVE  /\ RowShape([version |-> w, state |-> s, key |-> k, body |-> b])
           /\ RowShape(Unkeyed(s, b)) /\ RowShape(NoRow)
  BY Zenon DEF RowShape, Unkeyed, NoRow

LEMMA TypeStep ==
    ASSUME TypeInv, Next, UNCHANGED menu
    PROVE  TypeInv'
<1>1. ASSUME log' = log, rows' = rows PROVE TypeInv'
  BY <1>1, Zenon DEF TypeInv, Events
<1>2. CASE ensure_genesis
  <2>1. log' \in Seq(Events') /\ rows' = rows
    BY <1>2, AppendFacts, Zenon DEF ensure_genesis, TypeInv
  <2> QED
    BY <2>1, Zenon DEF TypeInv
<1>3. ASSUME NEW c \in Menus[menu], Applied(c) PROVE TypeInv'
  <2>1. PICK v \in 0 .. Len(log) : Lands(c, v)
    BY <1>3, AppliedLands, Zenon
  <2>2. log' \in Seq(Events') /\ v \in Nat
    BY <2>1, AppendFacts DEF Lands, TypeInv
  <2>3. /\ rows' = [b \in AggregatesOf[menu] |-> rows'[b]]
        /\ \A b \in DOMAIN rows : b # route_of(c) => rows'[b] = rows[b]
        /\ Written(c, v)
    BY <2>1, <2>2, Land, Zenon DEF Lands
  <2>4. RowShape(rows'[route_of(c)])
    <3>1. RowShape(rows[route_of(c)])
      BY RouteInRows, Zenon DEF TypeInv
    <3>2. RowShape(NoRow) /\ \A s, b : RowShape(Unkeyed(s, b))
      BY RowShapes, Zenon
    <3>3. \/ rows'[route_of(c)] \in {rows[route_of(c)], NoRow}
          \/ \E s, b : rows'[route_of(c)] = Unkeyed(s, b)
          \/ \E w, s, k, b : rows'[route_of(c)] = [version |-> w, state |-> s, key |-> k, body |-> b]
      BY <2>3, Zenon DEF Written
    <3> QED
      BY <3>1, <3>2, <3>3, RowShapes, Zenon
  <2>5. DOMAIN rows' = DOMAIN rows /\ \A a \in DOMAIN rows : RowShape(rows'[a])
    BY <2>3, <2>4, Zenon DEF TypeInv
  <2> QED
    BY <2>2, <2>3, <2>5, Zenon DEF TypeInv, RowShape
<1>4. ASSUME NEW c \in Menus[menu], paged(c) PROVE TypeInv'
  <2> DEFINE p == PageId(class_of(c.payload), route_of(c))
  <2>1. log' = log
    BY <1>4, Zenon DEF paged
  <2>2. /\ rows' = [b \in AggregatesOf[menu] |-> rows'[b]]
        /\ \A b \in DOMAIN rows : b # p => rows'[b] = rows[b]
        /\ rows' = rows \/ rows'[p] = Unkeyed("open", [topic |-> "authority", subject |-> route_of(c)])
    BY <1>4, PagedRows, Zenon
  <2> HIDE DEF p
  <2>3. rows' = rows \/ RowShape(rows'[p])
    BY <2>2, RowShapes, Zenon
  <2>4. DOMAIN rows' = DOMAIN rows /\ \A a \in DOMAIN rows : RowShape(rows'[a])
    BY <2>2, <2>3, Zenon DEF TypeInv
  <2>5. log' \in Seq(Events')
    BY <2>1, Zenon DEF TypeInv, Events
  <2> QED
    BY <2>2, <2>4, <2>5, Zenon DEF TypeInv, RowShape
<1>5. ASSUME NEW c \in Menus[menu], Replayed(c) \/ receipted_pty_refusal(c) PROVE TypeInv'
  BY <1>1, <1>5, Zenon DEF Replayed, receipted_pty_refusal, vars
<1>6. CASE Tick
  BY <1>1, <1>6, Zenon DEF Tick
<1> QED
  BY <1>2, <1>3, <1>4, <1>5, <1>6, Zenon DEF Next, try_submit

-----------------------------------------------------------------------------
(***************************************************************************)
(* Numbering an aggregate's events.                                        *)
(***************************************************************************)
\* An aggregate's events are numbered up to the highest, its first event owns it,
\* and a project uses a key once.
Numbered ==
    /\ \A i \in DOMAIN log :
        /\ log[i].version \in 1 .. current_aggregate_version(log[i].aggregate)
        /\ \E j \in DOMAIN log : log[j].aggregate = log[i].aggregate /\ log[j].version = 1
        /\ \E j \in DOMAIN log :
            /\ log[j].aggregate = log[i].aggregate
            /\ log[j].version = current_aggregate_version(log[i].aggregate)
    /\ \A i, j \in DOMAIN log : log[i].aggregate = log[j].aggregate => log[i].project = log[j].project
    /\ \A i, j \in DOMAIN log :
        log[i].project = log[j].project /\ log[i].key = log[j].key => i = j

LEMMA MaxIs ==
    ASSUME NEW S \in SUBSET Int, NEW m \in S, \A w \in S : w <= m
    PROVE  (CHOOSE v \in S : \A w \in S : w <= v) = m
<1> PICK c : c = CHOOSE v \in S : \A w \in S : w <= v
  BY Zenon
<1>1. c \in S /\ \A w \in S : w <= c
  BY Zenon
<1> QED
  BY <1>1

\* The highest version is a number, and 0 only where there is no event.
LEMMA CountFacts ==
    ASSUME Numbered, NEW a
    PROVE  /\ current_aggregate_version(a) \in Nat
           /\ current_aggregate_version(a) = 0 <=> \A i \in DOMAIN log : log[i].aggregate # a
<1>1. CASE \A i \in DOMAIN log : log[i].aggregate # a
  <2> DEFINE V == {0} \cup {log[i].version : i \in {j \in DOMAIN log : log[j].aggregate = a}}
  <2>1. V = {0}
    BY <1>1, Zenon
  <2>2. current_aggregate_version(a) = CHOOSE v \in V : \A w \in V : w <= v
    BY Zenon DEF current_aggregate_version
  <2> HIDE DEF V
  <2>3. V \in SUBSET Int /\ 0 \in V /\ \A w \in V : w <= 0
    BY <2>1
  <2>4. current_aggregate_version(a) = 0
    BY <2>2, <2>3, MaxIs, Zenon
  <2> QED
    BY <1>1, <2>4
<1>2. CASE \E i \in DOMAIN log : log[i].aggregate = a
  <2> PICK n : n = current_aggregate_version(a)
    BY Zenon
  <2> PICK i \in DOMAIN log : log[i].aggregate = a
    BY <1>2, Zenon
  <2>1. PICK j \in DOMAIN log :
          log[j].aggregate = log[i].aggregate /\ log[j].version = current_aggregate_version(log[i].aggregate)
    BY Zenon DEF Numbered
  <2>2. log[j].version \in 1 .. current_aggregate_version(log[j].aggregate)
    BY Zenon DEF Numbered
  <2>3. n \in 1 .. n
    BY <2>1, <2>2, Zenon
  <2> QED
    BY <1>2, <2>3
<1> QED
  BY <1>1, <1>2, Zenon

LEMMA SameVersions ==
    ASSUME log' = log, NEW a
    PROVE  current_aggregate_version(a)' = current_aggregate_version(a)
  BY ZenonT(30) DEF current_aggregate_version

\* An append of the next version raises its own aggregate's and no other.
LEMMA CountAppend ==
    ASSUME log \in Seq(Events), Numbered, NEW e, log' = Append(log, e),
           e.version = current_aggregate_version(e.aggregate) + 1, NEW a
    PROVE  /\ e.aggregate = a => current_aggregate_version(a)' = current_aggregate_version(a) + 1
           /\ e.aggregate # a => current_aggregate_version(a)' = current_aggregate_version(a)
<1> DEFINE V == {log[i].version : i \in {j \in DOMAIN log : log[j].aggregate = a}}
           W == {log'[i].version : i \in {j \in DOMAIN log' : log'[j].aggregate = a}}
<1> PICK n \in Nat : n = current_aggregate_version(a)
  BY CountFacts, Zenon
<1>1. /\ Len(log) \in Nat /\ DOMAIN log = 1 .. Len(log) /\ DOMAIN log' = 1 .. Len(log) + 1
      /\ \A i \in 1 .. Len(log) : log'[i] = log[i]
      /\ log'[Len(log) + 1] = e
  BY AppendFacts, Zenon
<1>2. current_aggregate_version(a)' = CHOOSE v \in {0} \cup W : \A w \in {0} \cup W : w <= v
  BY Zenon DEF current_aggregate_version
<1>3. n = CHOOSE v \in {0} \cup V : \A w \in {0} \cup V : w <= v
  BY Zenon DEF current_aggregate_version
<1>4. \A x \in V : x \in 1 .. n
  BY Zenon DEF Numbered
<1>5. CASE e.aggregate = a
  <2>1. W = V \cup {n + 1}
    <3>1. e.version = n + 1
      BY <1>5, Zenon
    <3> QED
      BY <1>1, <1>5, <3>1
  <2> HIDE DEF V, W
  <2>2. {0} \cup W \in SUBSET Int /\ n + 1 \in {0} \cup W /\ \A w \in {0} \cup W : w <= n + 1
    BY <1>4, <2>1
  <2>3. current_aggregate_version(a)' = n + 1
    BY <1>2, <2>2, MaxIs, Zenon
  <2> QED
    BY <1>5, <2>3, Zenon
<1>6. CASE e.aggregate # a
  <2>1. W = V
    BY <1>1, <1>6
  <2> QED
    BY <1>2, <1>3, <1>6, <2>1, Zenon
<1> QED
  BY <1>5, <1>6, Zenon
-----------------------------------------------------------------------------
(***************************************************************************)
(* The log.                                                                *)
(***************************************************************************)
Carries(e, c) ==
    /\ e.project = c.project /\ e.aggregate = route_of(c) /\ e.actor = c.actor
    /\ e.key = c.key /\ e.payload = c.payload

\* Genesis, activation, and from then on only other presented commands.
Opening ==
    /\ Len(log) >= 1 =>
        log[1].aggregate = KernelAggregate /\ log[1].payload.kind = "genesis" /\ log[1].version = 1
    /\ Len(log) >= 2 =>
        /\ log[2].aggregate = KernelAggregate /\ log[2].payload.kind = "activate_kernel"
        /\ log[2].version = 2
    /\ \A i \in DOMAIN log : i > 2 =>
        log[i].aggregate # KernelAggregate /\ log[i].payload.kind \notin {"genesis", "activate_kernel"}
    /\ \A i \in DOMAIN log : i > 1 => \E c \in Menus[menu] : Carries(log[i], c)

LogInv == TypeInv /\ Opening /\ Numbered

\* The epoch is how far the opening has come.
LEMMA Epochs ==
    ASSUME TypeInv, Opening
    PROVE  /\ Len(log) \in Nat
           /\ epoch_of = "none" => Len(log) = 0
           /\ epoch_of = "sealed" => Len(log) = 1
           /\ epoch_of = "active" => Len(log) >= 2
           /\ epoch_of \in {"none", "sealed", "active"}
           /\ Len(log) = 1 => current_aggregate_version(KernelAggregate) = 1
<1> DEFINE V == {0} \cup {log[i].version : i \in {j \in DOMAIN log : log[j].aggregate = KernelAggregate}}
           N == Len(log)
           C == current_aggregate_version(KernelAggregate)
<1>1. N \in Nat /\ DOMAIN log = 1 .. N
  BY DEF TypeInv
<1>2. C = CHOOSE v \in V : \A w \in V : w <= v
  BY Zenon DEF current_aggregate_version
<1>3. CASE N = 0
  <2>1. V = {0}
    <3>1. DOMAIN log = {}
      BY <1>1, <1>3
    <3> QED
      BY <3>1, Zenon
  <2> HIDE DEF V
  <2>2. V \in SUBSET Int /\ 0 \in V /\ \A w \in V : w <= 0
    BY <2>1
  <2>3. C = 0
    BY <1>2, <2>2, MaxIs, Zenon
  <2> QED
    BY <1>3, <2>3 DEF epoch_of
<1>4. CASE N = 1
  <2>1. V = {0, 1}
    BY <1>1, <1>4 DEF Opening
  <2>2. C = 1
    BY <1>2, <2>1, MaxIs
  <2> QED
    BY <1>4, <2>2 DEF epoch_of
<1>5. CASE N >= 2
  <2>1. V = {0, 1, 2}
    <3>1. 1 \in V /\ 2 \in V
      BY <1>1, <1>5 DEF Opening
    <3>2. ASSUME NEW i \in DOMAIN log, log[i].aggregate = KernelAggregate PROVE log[i].version \in {1, 2}
      BY <1>1, <1>5, <3>2 DEF Opening
    <3> QED
      BY <3>1, <3>2, Zenon
  <2>2. C = 2
    BY <1>2, <2>1, MaxIs
  <2> QED
    BY <1>1, <1>5, <2>2 DEF epoch_of
<1> QED
  BY <1>1, <1>3, <1>4, <1>5

\* What a commit appends.
LEMMA LandFacts ==
    ASSUME TypeInv, Opening, NEW c \in Menus[menu], NEW v \in Nat, Lands(c, v), UNCHANGED menu
    PROVE  LET e == build_event(c, v) IN
           /\ Carries(e, c) /\ e.version = v + 1 /\ e.at = now /\ e.issued_at = c.issued_at
           /\ log' = Append(log, e) /\ log \in Seq(Events) /\ Len(log) >= 1
           /\ c.payload.kind # "genesis"
           /\ \/ Len(log) = 1 /\ c.payload.kind = "activate_kernel" /\ route_of(c) = KernelAggregate
              \/ /\ Len(log) >= 2 /\ c.payload.kind # "activate_kernel"
                 /\ route_of(c) # KernelAggregate
<1>1. /\ Carries(build_event(c, v), c) /\ build_event(c, v).version = v + 1
      /\ build_event(c, v).at = now /\ build_event(c, v).issued_at = c.issued_at
  BY Zenon DEF Carries, build_event
<1>2. /\ log' = Append(log, build_event(c, v)) /\ log \in Seq(Events)
      /\ admitted(c) /\ ~(c.payload.kind = "activate_kernel" /\ epoch_of = "active")
  BY Zenon DEF Lands, TypeInv, New, Admissible, Unused
<1>3. c.payload.kind \in Kinds
  BY RouteInRows, Zenon
<1>4. c.payload.kind # "genesis"
  <2>1. \A t \in TableNames : "genesis" \notin KindsOf(t)
    BY TableFacts, Zenon
  <2> QED
    BY <1>3, <2>1, TablesDomain, Zenon DEF Kinds, UpsertKind
<1>5. \/ route_of(c)[1] = "kernel" /\ c.payload.kind = "activate_kernel" /\ route_of(c) = KernelAggregate
      \/ /\ route_of(c)[1] \in TableNames \cup {"pty_session_start", "orchestrator_checkpoint"}
         /\ c.payload.kind # "activate_kernel"
  BY <1>3, RouteOfKind, TableFacts, Zenon DEF UpsertKind
<1>6. "kernel" \notin TableNames \cup {"pty_session_start", "orchestrator_checkpoint"}
      /\ KernelAggregate[1] = "kernel"
  BY Zenon DEF TableNames, KernelAggregate
<1>7. CASE epoch_of = "active"
  BY <1>1, <1>2, <1>4, <1>5, <1>6, <1>7, Epochs
<1>8. CASE epoch_of = "sealed" /\ c.payload.kind = "activate_kernel"
  BY <1>1, <1>2, <1>4, <1>5, <1>6, <1>8, Epochs
<1> QED
  BY <1>2, <1>7, <1>8, Zenon DEF admitted

LEMMA LandOpening ==
    ASSUME TypeInv, Opening, NEW c \in Menus[menu], NEW v \in Nat, Lands(c, v), UNCHANGED menu
    PROVE  Opening'
<1> PICK e : e = build_event(c, v)
  BY Zenon
<1> PICK N \in Nat : N = Len(log)
  BY DEF TypeInv
<1>1. /\ Carries(e, c) /\ log' = Append(log, e) /\ log \in Seq(Events) /\ N >= 1
      /\ c.payload.kind # "genesis"
      /\ \/ N = 1 /\ c.payload.kind = "activate_kernel" /\ route_of(c) = KernelAggregate
         \/ N >= 2 /\ c.payload.kind # "activate_kernel" /\ route_of(c) # KernelAggregate
  BY LandFacts, Zenon
<1>2. /\ DOMAIN log = 1 .. N /\ Len(log') = N + 1 /\ DOMAIN log' = 1 .. N + 1
      /\ \A i \in 1 .. N : log'[i] = log[i]
      /\ log'[N + 1] = e
  BY <1>1, AppendFacts, Zenon
<1>3. e.aggregate = route_of(c) /\ e.payload = c.payload
  BY <1>1, Zenon DEF Carries
<1>4. log'[1].aggregate = KernelAggregate /\ log'[1].payload.kind = "genesis" /\ log'[1].version = 1
  BY <1>1, <1>2 DEF Opening
<1>5. /\ log'[2].aggregate = KernelAggregate /\ log'[2].payload.kind = "activate_kernel"
      /\ log'[2].version = 2
  <2>1. CASE N = 1
    <3>1. v = current_aggregate_version(route_of(c)) /\ e.version = v + 1
      BY LandFacts, Zenon DEF Lands
    <3>2. route_of(c) = KernelAggregate /\ c.payload.kind = "activate_kernel"
      BY <1>1, <2>1
    <3>3. v = 1
      BY <2>1, <3>1, <3>2, Epochs, Zenon
    <3> QED
      BY <1>2, <1>3, <2>1, <3>1, <3>2, <3>3
  <2>2. CASE N >= 2
    BY <1>2, <2>2 DEF Opening
  <2> QED
    BY <1>1, <2>1, <2>2, Zenon
<1>6. ASSUME NEW i \in DOMAIN log', i > 2
      PROVE  /\ log'[i].aggregate # KernelAggregate
             /\ log'[i].payload.kind \notin {"genesis", "activate_kernel"}
  <2>1. CASE i = N + 1
    BY <1>1, <1>2, <1>3, <1>6, <2>1
  <2>2. CASE i \in 1 .. N
    BY <1>2, <1>6, <2>2, Zenon DEF Opening
  <2> QED
    BY <1>2, <2>1, <2>2
<1>7. ASSUME NEW i \in DOMAIN log', i > 1 PROVE \E d \in Menus[menu] : Carries(log'[i], d)
  <2>1. CASE i = N + 1
    BY <1>1, <1>2, <2>1, Zenon
  <2>2. CASE i \in 1 .. N
    BY <1>2, <1>7, <2>2, Zenon DEF Opening
  <2> QED
    BY <1>2, <2>1, <2>2
<1>8. \A i \in DOMAIN log' : i > 1 => \E d \in Menus[menu]' : Carries(log[i], d)'
  BY <1>7, Zenon DEF Carries
<1> QED
  BY <1>4, <1>5, <1>6, <1>8, Zenon DEF Opening, KernelAggregate

LEMMA GenesisLog ==
    ASSUME TypeInv, Opening, ensure_genesis
    PROVE  /\ log' = Append(log, GenesisEvent) /\ log \in Seq(Events) /\ Len(log) = 0
           /\ DOMAIN log = {} /\ DOMAIN log' = {1} /\ Len(log') = 1
           /\ log'[1] = GenesisEvent /\ Events' = Events \cup {GenesisEvent} /\ Events = {}
<1>1. Len(log) = 0 /\ log' = Append(log, GenesisEvent) /\ log \in Seq(Events)
  BY Epochs, Zenon DEF ensure_genesis, TypeInv
<1>2. /\ DOMAIN log = 1 .. 0 /\ DOMAIN log' = 1 .. 1 /\ log'[1] = GenesisEvent /\ Len(log') = 1
      /\ Events' = Events \cup {GenesisEvent}
  BY <1>1, AppendFacts
<1>3. 1 .. 0 = {} /\ 1 .. 1 = {1}
  OBVIOUS
<1>4. Events = {}
  BY <1>2, <1>3, Zenon DEF Events
<1> QED
  BY <1>1, <1>2, <1>3, <1>4, Zenon

LEMMA GenesisOpening ==
    ASSUME TypeInv, Opening, ensure_genesis, UNCHANGED menu
    PROVE  Opening'
<1>1. /\ GenesisEvent.aggregate = KernelAggregate /\ GenesisEvent.payload.kind = "genesis"
      /\ GenesisEvent.version = 1
  BY Zenon DEF GenesisEvent
<1>2. DOMAIN log' = {1} /\ Len(log') = 1 /\ log'[1] = GenesisEvent
  BY GenesisLog, Zenon
<1> QED
  BY <1>1, <1>2 DEF Opening, KernelAggregate

LEMMA Upto ==
    ASSUME NEW m \in Nat
    PROVE  m + 1 \in 1 .. m + 1 /\ \A x \in 1 .. m : x \in 1 .. m + 1
  OBVIOUS

\* Appending the next version of an aggregate to a log where it has an owner or
\* no event, under an unused key, keeps the numbering.
LEMMA AppendNumbered ==
    ASSUME log \in Seq(Events), Numbered, NEW e, log' = Append(log, e),
           e.version = current_aggregate_version(e.aggregate) + 1,
           \A i \in DOMAIN log :
               log[i].aggregate = e.aggregate /\ log[i].version = 1 => log[i].project = e.project,
           \A i \in DOMAIN log : ~(log[i].project = e.project /\ log[i].key = e.key)
    PROVE  Numbered'
<1> DEFINE C(a) == current_aggregate_version(a)
           D == DOMAIN log
           n == Len(log) + 1
<1>1. /\ DOMAIN log' = D \cup {n} /\ n \notin D
      /\ \A i \in D : log'[i] = log[i]
      /\ log'[n] = e
  BY AppendFacts
<1>2. \A a : /\ C(a) \in Nat
             /\ e.aggregate = a => C(a)' = C(a) + 1
             /\ e.aggregate # a => C(a)' = C(a)
             /\ C(a) = 0 <=> \A i \in D : log[i].aggregate # a
  BY CountFacts, CountAppend, Zenon
<1>3. /\ e.version = C(e.aggregate) + 1
      /\ \A i \in D :
        /\ log[i].version \in 1 .. C(log[i].aggregate)
        /\ \E j \in D : log[j].aggregate = log[i].aggregate /\ log[j].version = 1
        /\ \E j \in D : log[j].aggregate = log[i].aggregate /\ log[j].version = C(log[i].aggregate)
  BY Zenon DEF Numbered
<1>4. \A i, j \in D : log[i].aggregate = log[j].aggregate => log[i].project = log[j].project
  BY Zenon DEF Numbered
<1>5. \A i, j \in D : log[i].project = log[j].project /\ log[i].key = log[j].key => i = j
  BY Zenon DEF Numbered
<1>6. ASSUME NEW i \in D, log[i].aggregate = e.aggregate PROVE log[i].project = e.project
  <2>1. PICK j \in D : log[j].aggregate = log[i].aggregate /\ log[j].version = 1
    BY <1>3, Zenon
  <2>2. log[j].project = e.project
    BY <1>6, <2>1, Zenon
  <2> QED
    BY <1>4, <1>6, <2>1, <2>2, Zenon
<1>7. \A i \in D : ~(log[i].project = e.project /\ log[i].key = e.key)
  BY Zenon
<1>8. C(e.aggregate)' = C(e.aggregate) + 1 /\ C(e.aggregate) \in Nat
  BY <1>2, Zenon
<1> HIDE DEF C, D, n
\* The new event, and the first event of its aggregate.
<1>9. /\ log'[n].version = C(e.aggregate)' /\ log'[n].version \in 1 .. C(e.aggregate)'
      /\ \E j \in D \cup {n} : log'[j].aggregate = e.aggregate /\ log'[j].version = 1
  <2>1. log'[n].version = C(e.aggregate) + 1
    BY <1>1, <1>3, Zenon
  <2>2. CASE C(e.aggregate) = 0
    BY <1>1, <1>8, <2>1, <2>2
  <2>3. CASE C(e.aggregate) # 0
    <3>1. PICK k \in D : log[k].aggregate = e.aggregate
      BY <1>2, <2>3, Zenon
    <3>2. PICK j \in D : log[j].aggregate = e.aggregate /\ log[j].version = 1
      BY <1>3, <3>1
    <3>3. log'[j].aggregate = e.aggregate /\ log'[j].version = 1
      BY <1>1, <3>2, Zenon
    <3>4. log'[n].version \in 1 .. C(e.aggregate)'
      BY <1>8, <2>1, Upto, Zenon
    <3> QED
      BY <1>8, <2>1, <3>3, <3>4, Zenon
  <2> QED
    BY <2>2, <2>3, Zenon
<1>10. ASSUME NEW i \in D \cup {n}
       PROVE  /\ log'[i].version \in 1 .. C(log[i].aggregate)'
              /\ \E j \in D \cup {n} : log'[j].aggregate = log'[i].aggregate /\ log'[j].version = 1
              /\ \E j \in D \cup {n} :
                  log'[j].aggregate = log'[i].aggregate /\ log'[j].version = C(log[i].aggregate)'
  <2> PICK a : a = log'[i].aggregate
    BY Zenon
  <2> PICK x : x = C(a)'
    BY Zenon
  <2>1. C(log[i].aggregate)' = x
    BY Zenon
  <2>2. CASE a = e.aggregate
    <3>1. x = C(e.aggregate)'
      BY <2>2, Zenon
    <3>2. log'[i].version \in 1 .. x
      <4>1. CASE i = n
        BY <1>9, <3>1, <4>1, Zenon
      <4>2. CASE i \in D
        <5>1. log'[i].version \in 1 .. C(e.aggregate)
          BY <1>1, <1>3, <2>2, <4>2, Zenon
        <5> QED
          BY <1>8, <3>1, <5>1, Upto, Zenon
      <4> QED
        BY <4>1, <4>2, Zenon
    <3>3. log'[n].aggregate = a /\ log'[n].version = x
      BY <1>1, <1>9, <2>2, <3>1, Zenon
    <3> QED
      BY <1>9, <2>1, <2>2, <3>2, <3>3, Zenon
  <2>3. CASE a # e.aggregate
    <3>1. i \in D /\ log[i].aggregate = a /\ log'[i] = log[i]
      BY <1>1, <2>3, Zenon
    <3>2. x = C(a)
      BY <1>2, <2>3, Zenon
    <3>3. PICK j \in D : log[j].aggregate = a /\ log[j].version = 1
      BY <1>3, <3>1, ZenonT(30)
    <3>4. PICK k \in D : log[k].aggregate = a /\ log[k].version = x
      BY <1>3, <3>1, <3>2
    <3>5. log'[i].version \in 1 .. x
      BY <1>3, <3>1, <3>2, Zenon
    <3> QED
      BY <1>1, <2>1, <3>1, <3>3, <3>4, <3>5, Zenon
  <2> QED
    BY <2>2, <2>3, Zenon
<1>11. ASSUME NEW i \in D \cup {n}, NEW j \in D \cup {n}, log'[i].aggregate = log'[j].aggregate
       PROVE  log'[i].project = log'[j].project
  BY <1>1, <1>4, <1>6, <1>11
<1>12. ASSUME NEW i \in D \cup {n}, NEW j \in D \cup {n},
              log'[i].project = log'[j].project, log'[i].key = log'[j].key
       PROVE  i = j
  BY <1>1, <1>5, <1>7, <1>12
<1>13. \A i \in DOMAIN log' :
        /\ log'[i].version \in 1 .. C(log[i].aggregate)'
        /\ \E j \in DOMAIN log' : log'[j].aggregate = log'[i].aggregate /\ log'[j].version = 1
        /\ \E j \in DOMAIN log' :
            log'[j].aggregate = log'[i].aggregate /\ log'[j].version = C(log[i].aggregate)'
  BY <1>1, <1>10, ZenonT(60)
<1>14. \A i, j \in DOMAIN log' : log'[i].aggregate = log'[j].aggregate => log'[i].project = log'[j].project
  BY <1>1, <1>11, Zenon
<1>15. \A i, j \in DOMAIN log' :
        log'[i].project = log'[j].project /\ log'[i].key = log'[j].key => i = j
  BY <1>1, <1>12, Zenon
<1> QED
  BY <1>13, <1>14, <1>15, Zenon DEF Numbered, C

LEMMA LandNumbered ==
    ASSUME LogInv, NEW c \in Menus[menu], NEW v \in Nat, Lands(c, v), UNCHANGED menu
    PROVE  Numbered'
<1> PICK e : e = build_event(c, v)
  BY Zenon
<1>1. Carries(e, c) /\ log' = Append(log, e) /\ log \in Seq(Events) /\ e.version = v + 1
  BY LandFacts, Zenon DEF LogInv
<1>2. current_aggregate_version(route_of(c)) = v /\ events_for_key(c) = {} /\ check_aggregate_owner(c)
  BY Zenon DEF Lands, New, Unused
<1>3. /\ e.aggregate = route_of(c) /\ e.project = c.project /\ e.key = c.key
      /\ \A i \in DOMAIN log : log[i] \in Events
  BY <1>1, Zenon DEF Carries, Events
<1>4. \A i \in DOMAIN log :
        log[i].aggregate = e.aggregate /\ log[i].version = 1 => log[i].project = e.project
  BY <1>2, <1>3, Zenon DEF check_aggregate_owner
<1>5. \A i \in DOMAIN log : ~(log[i].project = e.project /\ log[i].key = e.key)
  BY <1>2, <1>3, Zenon DEF events_for_key
<1>6. e.version = current_aggregate_version(e.aggregate) + 1
  BY <1>1, <1>2, <1>3, Zenon
<1> QED
  BY <1>1, <1>4, <1>5, <1>6, AppendNumbered, Zenon DEF LogInv

LEMMA GenesisNumbered ==
    ASSUME LogInv, ensure_genesis
    PROVE  Numbered'
<1>1. /\ log' = Append(log, GenesisEvent) /\ log \in Seq(Events) /\ DOMAIN log = {}
  BY GenesisLog, Zenon DEF LogInv
<1>2. GenesisEvent.version = current_aggregate_version(GenesisEvent.aggregate) + 1
  BY <1>1, CountFacts DEF GenesisEvent, LogInv
<1> QED
  BY <1>1, <1>2, AppendNumbered, Zenon DEF LogInv

-----------------------------------------------------------------------------
(***************************************************************************)
(* Every step lands a command, opens the log, pages, refuses with a        *)
(* receipt, or leaves what is stored alone.                                *)
(***************************************************************************)
Kept == UNCHANGED <<log, rows, receipt, delivery, menu>>

IsPage(r) == r.basis \in {"page_kind", "page_ungranted"}

Refused ==
    /\ UNCHANGED <<log, rows, delivery, menu>>
    /\ \E r : ~Allows(r) /\ ~IsPage(r) /\ receipt' = receipt \cup {r}

Landed == menu' = menu /\ \E c \in Menus[menu] : \E v \in Nat : Lands(c, v)
Opened == menu' = menu /\ ensure_genesis
Paged == menu' = menu /\ \E c \in Menus[menu] : paged(c)

LEMMA ReceiptFacts ==
    ASSUME NEW c, NEW b, NEW f
    PROVE  LET r == receipt_for(c, b, f) IN
           /\ r.project = c.project /\ r.key = c.key /\ r.actor = c.actor
           /\ r.action = class_of(c.payload) /\ r.subject = route_of(c)
           /\ r.basis = b /\ r.refused = f
  BY Zenon DEF receipt_for

LEMMA StepCases ==
    ASSUME TypeInv, [Next /\ UNCHANGED menu]_<<vars, menu>>
    PROVE  Landed \/ Opened \/ Paged \/ Refused \/ Kept
<1>1. CASE UNCHANGED <<vars, menu>>
  BY <1>1, Zenon DEF vars, Kept
<1>2. CASE ensure_genesis /\ menu' = menu
  BY <1>2, Zenon DEF Opened
<1>3. ASSUME NEW c \in Menus[menu], Applied(c), menu' = menu PROVE Landed
  <2>1. PICK v \in 0 .. Len(log) : Lands(c, v)
    BY <1>3, AppliedLands, Zenon
  <2>2. v \in Nat
    OBVIOUS
  <2> QED
    BY <1>3, <2>1, <2>2, Zenon DEF Landed
<1>4. ASSUME NEW c \in Menus[menu], Replayed(c), menu' = menu PROVE Kept
  BY <1>4, Zenon DEF Replayed, vars, Kept
<1>5. ASSUME NEW c \in Menus[menu], paged(c), menu' = menu PROVE Paged
  BY <1>5, Zenon DEF Paged
<1>6. ASSUME NEW c \in Menus[menu], receipted_pty_refusal(c), menu' = menu PROVE Refused
  <2>1. UNCHANGED <<log, rows, delivery, menu>>
    BY <1>6, Zenon DEF receipted_pty_refusal
  <2>2. \E b, f : /\ receipt' = receipt \cup {receipt_for(c, b, f)}
                  /\ f # "none" /\ b \notin {"page_kind", "page_ungranted"}
    <3>1. CASE write_receipt(receipt_for(c, "request_validation", "validation"))
      BY <3>1 DEF write_receipt
    <3>2. CASE ~Pages(c) /\ write_receipt(receipt_for(c, evaluate(c), RefusalCode(c)))
      <4>1. RefusalCode(c) # "none"
        BY Zenon DEF RefusalCode
      <4> QED
        BY <3>2, <4>1, Zenon DEF write_receipt, Pages
    <3> QED
      BY <1>6, <3>1, <3>2, Zenon DEF receipted_pty_refusal
  <2>3. PICK b, f : /\ receipt' = receipt \cup {receipt_for(c, b, f)}
                    /\ f # "none" /\ b \notin {"page_kind", "page_ungranted"}
    BY <2>2, Zenon
  <2> PICK r : r = receipt_for(c, b, f)
    BY Zenon
  <2>4. r.basis = b /\ r.refused = f
    BY ReceiptFacts
  <2>5. ~Allows(r) /\ ~IsPage(r) /\ receipt' = receipt \cup {r}
    BY <2>3, <2>4, Zenon DEF Allows, IsPage
  <2> QED
    BY <2>1, <2>5, Zenon DEF Refused
<1>7. CASE Tick /\ menu' = menu
  BY <1>7, Zenon DEF Tick, Kept
<1> QED
  BY <1>1, <1>2, <1>3, <1>4, <1>5, <1>6, <1>7, Zenon DEF Next, try_submit
-----------------------------------------------------------------------------
(***************************************************************************)
(* Authority.                                                              *)
(***************************************************************************)
LEMMA Bases ==
    ASSUME NEW c
    PROVE  /\ evaluate(c) = "none" <=> class_of(c.payload) = "unclassified"
           /\ evaluate(c) \in {"none", "operator", "page_kind", "grant", "page_ungranted"}
           /\ evaluate(c) = "operator" => is_pty_action(class_of(c.payload)) /\ c.actor.kind = "operator"
           /\ evaluate(c) = "grant" => matching_grant(c, class_of(c.payload))
<1> DEFINE k == class_of(c.payload)
<1> HIDE DEF k
<1>1. evaluate(c) =
        CASE k = "unclassified" -> "none"
          [] is_pty_action(k) /\ c.actor.kind = "operator" -> "operator"
          [] is_pty_action(k) /\ c.actor.kind \notin {"operator", "orchestrator"} -> "page_kind"
          [] OTHER -> IF matching_grant(c, k) THEN "grant" ELSE "page_ungranted"
  BY Zenon DEF evaluate, k
<1>2. is_pty_action(k) => k # "unclassified"
  BY Zenon DEF is_pty_action
<1>3. CASE k = "unclassified"
  <2>1. evaluate(c) = "none"
    BY <1>1, <1>2, <1>3, Zenon
  <2> QED
    BY <1>3, <2>1, Zenon DEF k
<1>4. CASE is_pty_action(k) /\ c.actor.kind = "operator"
  <2>1. evaluate(c) = "operator"
    BY <1>1, <1>2, <1>4, Zenon
  <2> QED
    BY <1>2, <1>4, <2>1, Zenon DEF k
<1>5. CASE is_pty_action(k) /\ c.actor.kind \notin {"operator", "orchestrator"}
  <2>1. evaluate(c) = "page_kind"
    BY <1>1, <1>2, <1>5, Zenon
  <2> QED
    BY <1>2, <1>5, <2>1, Zenon DEF k
<1>6. CASE /\ k # "unclassified"
           /\ ~(is_pty_action(k) /\ c.actor.kind = "operator")
           /\ ~(is_pty_action(k) /\ c.actor.kind \notin {"operator", "orchestrator"})
  <2>1. evaluate(c) = IF matching_grant(c, k) THEN "grant" ELSE "page_ungranted"
    BY <1>1, <1>6, Zenon
  <2>2. \/ evaluate(c) = "grant" /\ matching_grant(c, k)
        \/ evaluate(c) = "page_ungranted"
    BY <2>1, Zenon
  <2> QED
    BY <1>6, <2>2, Zenon DEF k
<1> QED
  BY <1>3, <1>4, <1>5, <1>6, Zenon

\* A live grant is an event of the log that no later event revokes.
GrantsLive ==
    \A a \in DOMAIN rows : a[1] = "authority_grant" /\ rows[a].state = "live" =>
        \E j \in DOMAIN log :
            /\ log[j].payload.kind = "grant_authority" /\ log[j].aggregate = a
            /\ log[j].payload.arg = rows[a].body
            /\ \A k \in DOMAIN log : k > j =>
                ~(log[k].payload.kind = "revoke_authority" /\ log[k].aggregate = a)

\* The third part of EventsJustified, of one event of a log.
Covers(g, e) ==
    /\ g.payload.kind = "grant_authority"
    /\ g.payload.arg.class = class_of(e.payload) /\ g.payload.arg.grantee = e.actor
    /\ g.payload.arg.scope \in {NoScope, SubjectOf(e)}
    /\ g.payload.arg.expires = Never
        \/ g.payload.arg.expires > (IF is_pty_action(class_of(e.payload)) THEN e.at ELSE e.issued_at)

Intrinsic(e) ==
    \/ class_of(e.payload) = "unclassified"
    \/ is_pty_action(class_of(e.payload)) /\ e.actor.kind = "operator"

Authorised(s, i) ==
    \/ i = 1 \/ Intrinsic(s[i])
    \/ \E j \in 1 .. i - 1 :
         /\ Covers(s[j], s[i])
         /\ \A k \in j + 1 .. i - 1 :
             ~(s[k].payload.kind = "revoke_authority" /\ s[k].aggregate = s[j].aggregate)

LEMMA Justified ==
    ASSUME TypeInv, Opening, \A i \in DOMAIN log : Authorised(log, i)
    PROVE  EventsJustified
<1> PICK N \in Nat : N = Len(log) /\ DOMAIN log = 1 .. N
  BY DEF TypeInv
<1>1. ASSUME NEW i \in 1 .. N
      PROVE  /\ (i = 1) <=> (log[i].payload.kind = "genesis")
             /\ (i = 2) <=> (log[i].payload.kind = "activate_kernel")
  BY DEF Opening
<1> QED
  BY <1>1, ZenonT(30) DEF EventsJustified, Authorised, Covers, Intrinsic

\* What was authorised stays so: nothing is read after the event.
LEMMA AuthorisedStays ==
    ASSUME NEW s, NEW t, NEW i \in Nat, i >= 1, \A k \in 1 .. i : t[k] = s[k], Authorised(s, i)
    PROVE  Authorised(t, i)
<1>1. t[i] = s[i] /\ \A k \in 1 .. i - 1 : t[k] = s[k]
  OBVIOUS
<1>2. CASE i = 1 \/ Intrinsic(s[i])
  BY <1>1, <1>2, Zenon DEF Authorised
<1>3. ASSUME NEW j \in 1 .. i - 1, Covers(s[j], s[i]),
             \A k \in j + 1 .. i - 1 :
                 ~(s[k].payload.kind = "revoke_authority" /\ s[k].aggregate = s[j].aggregate)
      PROVE  Authorised(t, i)
  <2>1. t[j] = s[j] /\ \A k \in j + 1 .. i - 1 : t[k] = s[k]
    BY <1>1
  <2>2. Covers(t[j], t[i])
    BY <1>1, <1>3, <2>1, Zenon
  <2>3. \A k \in j + 1 .. i - 1 :
          ~(t[k].payload.kind = "revoke_authority" /\ t[k].aggregate = t[j].aggregate)
    BY <1>3, <2>1, Zenon
  <2> QED
    BY <2>2, <2>3, Zenon DEF Authorised
<1> QED
  BY <1>2, <1>3, Zenon DEF Authorised

\* The grant that lets a command land covers its event.
LEMMA LandAuthorised ==
    ASSUME LogInv, GrantsLive, NEW c \in Menus[menu], NEW v \in Nat, Lands(c, v), UNCHANGED menu
    PROVE  Authorised(log', Len(log) + 1)
<1> PICK e : e = build_event(c, v)
  BY Zenon
<1> PICK N \in Nat : N = Len(log)
  BY DEF LogInv, TypeInv
<1> SUFFICES Authorised(log', N + 1)
  BY Zenon
<1>1. /\ Carries(e, c) /\ log' = Append(log, e) /\ log \in Seq(Events)
      /\ e.at = now /\ e.issued_at = c.issued_at
  BY LandFacts, Zenon DEF LogInv
<1>2. /\ DOMAIN log = 1 .. N /\ log'[N + 1] = e /\ \A i \in 1 .. N : log'[i] = log[i]
  BY <1>1, AppendFacts, Zenon
<1> PICK class : class = class_of(c.payload)
  BY Zenon
<1>3. /\ class_of(e.payload) = class /\ e.actor = c.actor /\ SubjectOf(e) = AuthoritySubject(c)
  BY <1>1, Zenon DEF Carries, SubjectOf, AuthoritySubject
<1>4. CASE evaluate(c) \in {"none", "operator"}
  <2>1. Intrinsic(e)
    BY <1>3, <1>4, Bases, Zenon DEF Intrinsic
  <2> QED
    BY <1>2, <2>1, Zenon DEF Authorised
<1>5. CASE matching_grant(c, class)
  <2> PICK at : at = IF is_pty_action(class) THEN now ELSE c.issued_at
    BY Zenon
  <2>1. PICK a \in DOMAIN rows :
          /\ a[1] = "authority_grant" /\ rows[a].state = "live"
          /\ rows[a].body.class = class /\ rows[a].body.grantee = c.actor
          /\ rows[a].body.scope \in {NoScope, AuthoritySubject(c)}
          /\ rows[a].body.expires = Never \/ rows[a].body.expires > at
    BY <1>5, Zenon DEF matching_grant
  <2>2. PICK j \in 1 .. N :
          /\ log[j].payload.kind = "grant_authority" /\ log[j].aggregate = a
          /\ log[j].payload.arg = rows[a].body
          /\ \A k \in 1 .. N : k > j =>
                ~(log[k].payload.kind = "revoke_authority" /\ log[k].aggregate = a)
    BY <1>2, <2>1 DEF GrantsLive
  <2>3. log'[j] = log[j] /\ j \in 1 .. N + 1 - 1
    BY <1>2
  <2>4. at = IF is_pty_action(class_of(e.payload)) THEN e.at ELSE e.issued_at
    BY <1>1, <1>3, Zenon
  <2>5. Covers(log'[j], e)
    <3> PICK g : g = log'[j]
      BY Zenon
    <3> PICK body : body = rows[a].body
      BY Zenon
    <3>1. g.payload.kind = "grant_authority" /\ g.payload.arg = body
      BY <2>2, <2>3, Zenon
    <3>2. /\ body.class = class_of(e.payload) /\ body.grantee = e.actor
          /\ body.scope \in {NoScope, SubjectOf(e)}
      BY <1>3, <2>1, Zenon
    <3>3. body.expires = Never \/ body.expires > at
      BY <2>1, Zenon
    <3> QED
      BY <3>1, <3>2, <3>3, <2>4, Zenon DEF Covers
  <2>6. \A k \in j + 1 .. N + 1 - 1 :
          ~(log'[k].payload.kind = "revoke_authority" /\ log'[k].aggregate = log'[j].aggregate)
    BY <1>2, <2>2, <2>3
  <2>7. Covers(log'[j], log'[N + 1])
    BY <1>2, <2>5, Zenon
  <2> QED
    BY <1>2, <2>3, <2>6, <2>7 DEF Authorised
<1>6. evaluate(c) \in {"none", "operator"} \/ matching_grant(c, class)
  BY Bases, Zenon DEF Lands, Pages
<1> QED
  BY <1>4, <1>5, <1>6, Zenon

LEMMA LandGrants ==
    ASSUME LogInv, GrantsLive, NEW c \in Menus[menu], NEW v \in Nat, Lands(c, v), UNCHANGED menu
    PROVE  GrantsLive'
<1> PICK e : e = build_event(c, v)
  BY Zenon
<1> PICK N \in Nat : N = Len(log)
  BY DEF LogInv, TypeInv
<1>1. Carries(e, c) /\ log' = Append(log, e) /\ log \in Seq(Events)
  BY LandFacts, Zenon DEF LogInv
<1>2. /\ DOMAIN log = 1 .. N /\ DOMAIN log' = 1 .. N + 1
      /\ log'[N + 1] = e /\ \A i \in 1 .. N : log'[i] = log[i]
  BY <1>1, AppendFacts, Zenon
<1>3. /\ DOMAIN rows' = DOMAIN rows /\ Written(c, v)
      /\ \A b \in DOMAIN rows : b # route_of(c) => rows'[b] = rows[b]
  BY Land, Zenon DEF Lands, LogInv, TypeInv
<1>4. e.aggregate = route_of(c) /\ e.payload = c.payload
  BY <1>1, Zenon DEF Carries
<1> SUFFICES ASSUME NEW a \in DOMAIN rows, a[1] = "authority_grant", rows'[a].state = "live"
             PROVE  \E j \in 1 .. N + 1 :
                      /\ log'[j].payload.kind = "grant_authority" /\ log'[j].aggregate = a
                      /\ log'[j].payload.arg = rows'[a].body
                      /\ \A k \in 1 .. N + 1 : k > j =>
                            ~(log'[k].payload.kind = "revoke_authority" /\ log'[k].aggregate = a)
  BY <1>2, <1>3 DEF GrantsLive
<1>5. CASE a # route_of(c)
  <2>1. rows'[a] = rows[a] /\ rows[a].state = "live"
    BY <1>3, <1>5, Zenon
  <2>2. PICK j \in DOMAIN log :
          /\ log[j].payload.kind = "grant_authority" /\ log[j].aggregate = a
          /\ log[j].payload.arg = rows[a].body
          /\ \A k \in DOMAIN log : k > j =>
                ~(log[k].payload.kind = "revoke_authority" /\ log[k].aggregate = a)
    BY <2>1, Zenon DEF GrantsLive
  <2>3. log'[j] = log[j] /\ j \in 1 .. N + 1 /\ log'[N + 1].aggregate # a
    BY <1>2, <1>4, <1>5
  <2>4. \A k \in 1 .. N + 1 : k > j =>
          ~(log'[k].payload.kind = "revoke_authority" /\ log'[k].aggregate = a)
    BY <1>2, <2>2, <2>3
  <2> QED
    BY <2>1, <2>2, <2>3, <2>4, Zenon
<1>6. CASE a = route_of(c)
  <2>1. c.payload.kind = "grant_authority" /\ rows'[a].body = c.payload.arg
    <3> PICK k : k = c.payload.kind
      BY Zenon
    <3>1. /\ "authority_grant" \notin Rowless /\ "authority_grant" # "orchestrator_checkpoint"
          /\ "authority_grant" \in TableNames
      BY Zenon DEF Rowless, TableNames
    <3>2. k \in {"grant_authority", "revoke_authority"}
      BY <1>3, <1>6, <3>1, GrantTable, Zenon DEF Written
    <3>3. CASE k = "grant_authority"
      <4>1. k \in InsertKinds
        BY <3>3, Zenon DEF InsertKinds
      <4>2. rows'[a] = [version |-> RowVersion(a[1], v + 1), state |-> Tables[a[1]].initial,
                        key |-> c.key, body |-> c.payload.arg]
        BY <1>3, <1>6, <3>1, <4>1, Zenon DEF Written
      <4> QED
        BY <3>3, <4>2
    <3>4. CASE k = "revoke_authority"
      <4>1. k \notin InsertKinds /\ k \notin Removes /\ k # "move_workspace_node"
        BY <3>4, RemovesAre, Zenon DEF InsertKinds
      <4>2. rows'[a] = [version |-> RowVersion(a[1], v + 1),
                        state |-> StateAfter(a[1], k, c.payload.to, rows[a].state),
                        key |-> rows[a].key, body |-> rows[a].body]
        BY <1>3, <1>6, <3>1, <4>1, Zenon DEF Written
      <4>3. rows'[a].state = "revoked"
        BY <3>4, <4>2, StampedStates
      <4> QED
        BY <4>3, Zenon
    <3> QED
      BY <3>2, <3>3, <3>4, Zenon
  <2>2. N + 1 \in 1 .. N + 1 /\ \A k \in 1 .. N + 1 : ~(k > N + 1)
    OBVIOUS
  <2>3. log'[N + 1].payload = c.payload /\ log'[N + 1].aggregate = a
    BY <1>2, <1>4, <1>6, Zenon
  <2> QED
    BY <2>1, <2>2, <2>3, Zenon
<1> QED
  BY <1>5, <1>6, Zenon

LEMMA PagedGrants ==
    ASSUME TypeInv, GrantsLive, NEW c \in Menus[menu], paged(c), UNCHANGED menu
    PROVE  GrantsLive'
<1> PICK p : p = PageId(class_of(c.payload), route_of(c))
  BY Zenon
<1>1. /\ DOMAIN rows' = DOMAIN rows /\ p[1] = "attention_item"
      /\ \A b \in DOMAIN rows : b # p => rows'[b] = rows[b]
  BY PagedRows, Zenon DEF TypeInv
<1>2. log' = log /\ \A b \in DOMAIN rows : b[1] = "authority_grant" => rows'[b] = rows[b]
  BY <1>1, Zenon DEF paged
<1> QED
  BY <1>1, <1>2 DEF GrantsLive


-----------------------------------------------------------------------------
(***************************************************************************)
(* Every step keeps the log in order and every event of it authorised.     *)
(***************************************************************************)
LEMMA LogStep ==
    ASSUME LogInv, [Next /\ UNCHANGED menu]_<<vars, menu>>
    PROVE  LogInv'
<1>1. TypeInv'
  <2>1. CASE Next /\ UNCHANGED menu
    BY <2>1, TypeStep, Zenon DEF LogInv
  <2>2. CASE UNCHANGED <<vars, menu>>
    BY <2>2, Zenon DEF LogInv, TypeInv, Events, vars
  <2> QED
    BY <2>1, <2>2, Zenon
<1>2. ASSUME Landed PROVE Opening' /\ Numbered'
  BY <1>2, LandOpening, LandNumbered, Zenon DEF Landed, LogInv
<1>3. ASSUME Opened PROVE Opening' /\ Numbered'
  BY <1>3, GenesisOpening, GenesisNumbered, Zenon DEF Opened, LogInv
<1>4. ASSUME log' = log, menu' = menu PROVE Opening' /\ Numbered'
  <2>1. Opening'
    BY <1>4, Zenon DEF LogInv, Opening
  <2>2. \A a : current_aggregate_version(a)' = current_aggregate_version(a)
    BY <1>4, SameVersions, Zenon
  <2>3. ASSUME NEW i \in DOMAIN log
        PROVE  /\ log[i].version \in 1 .. current_aggregate_version(log[i].aggregate)'
               /\ \E j \in DOMAIN log : log[j].aggregate = log[i].aggregate /\ log[j].version = 1
               /\ \E j \in DOMAIN log :
                   /\ log[j].aggregate = log[i].aggregate
                   /\ log[j].version = current_aggregate_version(log[i].aggregate)'
    <3> PICK x : x = current_aggregate_version(log[i].aggregate)
      BY Zenon
    <3>1. /\ log[i].version \in 1 .. x
          /\ \E j \in DOMAIN log : log[j].aggregate = log[i].aggregate /\ log[j].version = 1
          /\ \E j \in DOMAIN log : log[j].aggregate = log[i].aggregate /\ log[j].version = x
      BY Zenon DEF LogInv, Numbered
    <3>2. current_aggregate_version(log[i].aggregate)' = x
      BY <1>4, <2>2, Zenon
    <3> QED
      BY <3>1, <3>2, Zenon
  <2>4. /\ \A i, j \in DOMAIN log : log[i].aggregate = log[j].aggregate => log[i].project = log[j].project
        /\ \A i, j \in DOMAIN log :
            log[i].project = log[j].project /\ log[i].key = log[j].key => i = j
    BY Zenon DEF LogInv, Numbered
  <2>5. Numbered'
    BY <1>4, <2>3, <2>4, SMTT(30) DEF Numbered
  <2> QED
    BY <2>1, <2>5, Zenon
<1>5. Paged \/ Refused \/ Kept => log' = log /\ menu' = menu
  BY Zenon DEF Paged, paged, Refused, Kept
<1> QED
  BY <1>1, <1>2, <1>3, <1>4, <1>5, StepCases, Zenon DEF LogInv

JustInv == LogInv /\ GrantsLive /\ \A i \in DOMAIN log : Authorised(log, i)

LEMMA JustStep ==
    ASSUME JustInv, [Next /\ UNCHANGED menu]_<<vars, menu>>
    PROVE  JustInv'
<1>1. LogInv /\ TypeInv /\ Opening /\ LogInv'
  BY LogStep, Zenon DEF JustInv, LogInv
<1>2. ASSUME Landed PROVE GrantsLive' /\ \A i \in DOMAIN log' : Authorised(log', i)
  <2>1. PICK c \in Menus[menu], v \in Nat : Lands(c, v) /\ menu' = menu
    BY <1>2, Zenon DEF Landed
  <2>2. GrantsLive' /\ Authorised(log', Len(log) + 1)
    BY <1>1, <2>1, LandGrants, LandAuthorised, Zenon DEF JustInv
  <2>3. /\ Len(log) \in Nat /\ DOMAIN log = 1 .. Len(log) /\ DOMAIN log' = 1 .. Len(log) + 1
        /\ \A i \in 1 .. Len(log) : log'[i] = log[i]
    BY <1>1, <2>1, AppendFacts, Zenon DEF Lands, TypeInv
  <2>4. ASSUME NEW i \in DOMAIN log PROVE Authorised(log', i)
    <3>1. i \in Nat /\ i >= 1 /\ \A k \in 1 .. i : log'[k] = log[k]
      BY <2>3
    <3>2. Authorised(log, i)
      BY Zenon DEF JustInv
    <3> QED
      BY <3>1, <3>2, AuthorisedStays, Zenon
  <2>5. ASSUME NEW i \in DOMAIN log' PROVE i \in DOMAIN log \/ i = Len(log) + 1
    BY <2>3
  <2> QED
    BY <2>2, <2>4, <2>5, Zenon
<1>3. ASSUME Opened PROVE GrantsLive' /\ \A i \in DOMAIN log' : Authorised(log', i)
  <2>1. DOMAIN log = {} /\ DOMAIN log' = {1} /\ rows' = rows
    BY <1>1, <1>3, GenesisLog, Zenon DEF Opened, ensure_genesis
  <2>2. \A a \in DOMAIN rows : ~(a[1] = "authority_grant" /\ rows[a].state = "live")
    BY <2>1, Zenon DEF JustInv, GrantsLive
  <2>3. GrantsLive'
    BY <2>1, <2>2, Zenon DEF GrantsLive
  <2> QED
    BY <2>1, <2>3, Zenon DEF Authorised
<1>4. ASSUME Paged PROVE GrantsLive' /\ \A i \in DOMAIN log' : Authorised(log', i)
  <2>1. PICK c \in Menus[menu] : paged(c) /\ menu' = menu
    BY <1>4, Zenon DEF Paged
  <2>2. GrantsLive'
    BY <1>1, <2>1, PagedGrants, Zenon DEF JustInv
  <2>3. log' = log
    BY <2>1, Zenon DEF paged
  <2> QED
    BY <2>2, <2>3, Zenon DEF JustInv
<1>5. ASSUME Refused \/ Kept PROVE GrantsLive' /\ \A i \in DOMAIN log' : Authorised(log', i)
  <2>1. log' = log /\ rows' = rows
    BY <1>5, Zenon DEF Refused, Kept
  <2> QED
    BY <2>1 DEF JustInv, GrantsLive
<1> QED
  BY <1>1, <1>2, <1>3, <1>4, <1>5, StepCases, Zenon DEF JustInv

LEMMA InitLog == Init => JustInv
<1> SUFFICES ASSUME Init PROVE JustInv
  BY Zenon
<1>1. TypeInv
  BY InitType, Zenon
<1>2. DOMAIN log = {} /\ Len(log) = 0
  BY DEF Init
<1>3. Opening /\ Numbered
  BY <1>2 DEF Opening, Numbered
<1>4. GrantsLive
  BY Zenon DEF Init, GrantsLive, NoRow, Unkeyed
<1> QED
  BY <1>1, <1>2, <1>3, <1>4, Zenon DEF JustInv, LogInv

\* Read off the log alone, every event was admissible when it landed: the sealed
\* epoch, the grant that covered it and the clock that had not run it out
\* (authority.rs, epoch.rs, try_submit), for any set of commands and callers.
THEOREM SubmitJustified == Spec => []EventsJustified
<1>1. Init => JustInv
  BY InitLog, Zenon
<1>2. JustInv /\ [Next /\ UNCHANGED menu]_<<vars, menu>> => JustInv'
  BY JustStep, Zenon
<1>3. JustInv => EventsJustified
  BY Justified, Zenon DEF JustInv, LogInv
<1> QED
  BY <1>1, <1>2, <1>3, PTL DEF Spec

-----------------------------------------------------------------------------
(***************************************************************************)
(* The receipts.                                                           *)
(***************************************************************************)
Attests(r, e) ==
    /\ r.project = e.project /\ r.key = e.key /\ r.actor = e.actor
    /\ r.action = class_of(e.payload) /\ r.subject = e.aggregate /\ Allows(r)

\* A command that lands is receipted, when gated, by a receipt that allows it.
LEMMA LandReceipt ==
    ASSUME TypeInv, Opening, NEW c \in Menus[menu], NEW v \in Nat, Lands(c, v), UNCHANGED menu
    PROVE  LET e == build_event(c, v) IN
           \/ class_of(e.payload) = "unclassified" /\ receipt' = receipt
           \/ \E r : receipt' = receipt \cup {r} /\ Attests(r, e) /\ ~IsPage(r)
<1> PICK e : e = build_event(c, v)
  BY Zenon
<1>1. Carries(e, c)
  BY LandFacts, Zenon
<1>2. CASE evaluate(c) = "none"
  BY <1>1, <1>2, Bases, Zenon DEF Lands, Carries
<1>3. CASE evaluate(c) # "none"
  <2> PICK r : r = receipt_for(c, evaluate(c), "none")
    BY Zenon
  <2>1. evaluate(c) \in {"operator", "grant"}
    BY <1>3, Bases, Zenon DEF Lands, Pages
  <2>2. receipt' = receipt \cup {r}
    BY <1>3, Zenon DEF Lands, write_receipt
  <2>3. /\ r.project = c.project /\ r.key = c.key /\ r.actor = c.actor
        /\ r.action = class_of(c.payload) /\ r.subject = route_of(c)
        /\ r.basis = evaluate(c) /\ r.refused = "none"
    BY ReceiptFacts
  <2>4. Attests(r, e) /\ ~IsPage(r)
    BY <1>1, <2>1, <2>3, Zenon DEF Attests, Allows, IsPage, Carries
  <2> QED
    BY <2>2, <2>4, Zenon
<1> QED
  BY <1>2, <1>3, Zenon

LEMMA TruthfulIs ==
    ReceiptsTruthful <=>
        /\ \A e \in Events : e.payload.kind # "genesis" /\ class_of(e.payload) # "unclassified" =>
            \E r \in receipt : Attests(r, e)
        /\ \A r \in receipt : Allows(r) =>
            \E e \in Events : e.project = r.project /\ e.key = r.key /\ e.aggregate = r.subject
  BY Zenon DEF ReceiptsTruthful, Attests

LEMMA ReceiptsStep ==
    ASSUME LogInv, ReceiptsTruthful, [Next /\ UNCHANGED menu]_<<vars, menu>>
    PROVE  ReceiptsTruthful'
<1>1. TypeInv /\ Opening
  BY Zenon DEF LogInv
<1> SUFFICES
      /\ \A e \in Events' : e.payload.kind # "genesis" /\ class_of(e.payload) # "unclassified" =>
          \E r \in receipt' : Attests(r, e)
      /\ \A r \in receipt' : Allows(r) =>
          \E e \in Events' : e.project = r.project /\ e.key = r.key /\ e.aggregate = r.subject
  BY Zenon DEF ReceiptsTruthful, Attests
<1>2. /\ \A e \in Events : e.payload.kind # "genesis" /\ class_of(e.payload) # "unclassified" =>
          \E r \in receipt : Attests(r, e)
      /\ \A r \in receipt : Allows(r) =>
          \E e \in Events : e.project = r.project /\ e.key = r.key /\ e.aggregate = r.subject
  BY TruthfulIs, Zenon
<1>3. CASE Landed
  <2>1. PICK c \in Menus[menu], v \in Nat : Lands(c, v) /\ menu' = menu
    BY <1>3, Zenon DEF Landed
  <2> PICK e : e = build_event(c, v)
    BY Zenon
  <2>2. Events' = Events \cup {e}
    BY <1>1, <2>1, AppendFacts, Zenon DEF Lands, TypeInv
  <2>3. CASE class_of(e.payload) = "unclassified" /\ receipt' = receipt
    BY <1>2, <2>2, <2>3, Zenon
  <2>4. ASSUME NEW r, receipt' = receipt \cup {r}, Attests(r, e)
        PROVE  /\ \A f \in Events' : f.payload.kind # "genesis" /\ class_of(f.payload) # "unclassified" =>
                   \E q \in receipt' : Attests(q, f)
               /\ \A q \in receipt' : Allows(q) =>
                   \E f \in Events' : f.project = q.project /\ f.key = q.key /\ f.aggregate = q.subject
    <3>1. e.project = r.project /\ e.key = r.key /\ e.aggregate = r.subject
      BY <2>4, Zenon DEF Attests
    <3> QED
      BY <1>2, <2>2, <2>4, <3>1, Zenon
  <2> QED
    BY <1>1, <2>1, <2>3, <2>4, LandReceipt, Zenon
<1>4. CASE Opened
  <2>1. Events' = Events \cup {GenesisEvent} /\ receipt' = receipt
    BY <1>1, <1>4, GenesisLog, Zenon DEF Opened, ensure_genesis
  <2>2. GenesisEvent.payload.kind = "genesis"
    BY Zenon DEF GenesisEvent
  <2> QED
    BY <1>2, <2>1, <2>2, Zenon
<1>5. CASE Paged
  <2>1. PICK c \in Menus[menu] : paged(c)
    BY <1>5, Zenon DEF Paged
  <2> PICK r : r = receipt_for(c, evaluate(c), "none")
    BY Zenon
  <2>2. receipt' = receipt \cup {r} /\ log' = log /\ evaluate(c) \in {"page_kind", "page_ungranted"}
    BY <2>1, Zenon DEF paged, write_receipt, Pages
  <2>3. ~Allows(r)
    BY <2>2, ReceiptFacts DEF Allows
  <2>4. Events' = Events
    BY <2>2, Zenon DEF Events
  <2> QED
    BY <1>2, <2>2, <2>3, <2>4, Zenon
<1>6. CASE Refused
  <2>1. PICK r : ~Allows(r) /\ receipt' = receipt \cup {r}
    BY <1>6, Zenon DEF Refused
  <2>2. Events' = Events
    BY <1>6, Zenon DEF Refused, Events
  <2> QED
    BY <1>2, <2>1, <2>2, Zenon
<1>7. CASE Kept
  <2>1. Events' = Events /\ receipt' = receipt
    BY <1>7, Zenon DEF Kept, Events
  <2> QED
    BY <1>2, <2>1, Zenon
<1> QED
  BY <1>1, <1>3, <1>4, <1>5, <1>6, <1>7, StepCases, Zenon
-----------------------------------------------------------------------------
(***************************************************************************)
(* The deliveries.                                                         *)
(***************************************************************************)
Delivers(d, i) ==
    /\ d.seq = i /\ log[i].payload.kind \in ReceiptedPty
    /\ log[i].project = d.project /\ log[i].key = d.key

DeliveryInv ==
    /\ \A d \in delivery : \E i \in DOMAIN log : Delivers(d, i)
    /\ \A i \in DOMAIN log : log[i].payload.kind \in ReceiptedPty => \E d \in delivery : Delivers(d, i)
    /\ \A d, f \in delivery : d.cid = f.cid \/ d.seq = f.seq => d = f

LEMMA DeliveriesMatch ==
    ASSUME DeliveryInv
    PROVE  DeliveriesMatchLog
  BY DEF DeliveryInv, Delivers, DeliveriesMatchLog

\* The bytes an answered request carried are those of the event's one delivery row.
LEMMA OneRequest ==
    ASSUME LogInv, DeliveryInv
    PROVE  OneRequestPerKey
<1> SUFFICES ASSUME NEW c \in Menus[menu], NEW d \in Menus[menu],
                    Replay(c), BindingMatches(c), Replay(d), BindingMatches(d),
                    c.project = d.project, c.key = d.key
             PROVE  c.actor = d.actor /\ c.payload = d.payload /\ c.bytes = d.bytes
  BY Zenon DEF OneRequestPerKey
<1>1. ASSUME NEW b \in Menus[menu], Replay(b)
      PROVE  \E i \in DOMAIN log : /\ log[i].project = b.project /\ log[i].key = b.key
                                   /\ log[i].actor = b.actor /\ log[i].payload = b.payload
  <2>1. PICK e \in Events : /\ events_for_key(b) = {e} /\ e.project = b.project
                            /\ e.actor = b.actor /\ e.payload = b.payload
    BY <1>1, Zenon DEF Replay
  <2>2. e.key = b.key
    BY <2>1, Zenon DEF events_for_key
  <2> QED
    BY <2>1, <2>2, Zenon DEF Events
<1>2. PICK i \in DOMAIN log : /\ log[i].project = c.project /\ log[i].key = c.key
                              /\ log[i].actor = c.actor /\ log[i].payload = c.payload
  BY <1>1, Zenon
<1>3. PICK j \in DOMAIN log : /\ log[j].project = d.project /\ log[j].key = d.key
                              /\ log[j].actor = d.actor /\ log[j].payload = d.payload
  BY <1>1, Zenon
<1>4. \A m, n \in DOMAIN log : log[m].project = log[n].project /\ log[m].key = log[n].key => m = n
  BY Zenon DEF LogInv, Numbered
<1>5. i = j
  BY <1>2, <1>3, <1>4, Zenon
<1>6. c.actor = d.actor /\ c.payload = d.payload
  BY <1>2, <1>3, <1>5, Zenon
<1>7. CASE c.payload.kind = "send_pty_input"
  <2>1. PICK x \in delivery : x.project = c.project /\ x.key = c.key /\ x.binding = c.bytes
    BY <1>7, Zenon DEF BindingMatches
  <2>2. d.payload.kind = "send_pty_input"
    BY <1>6, <1>7, Zenon
  <2>3. PICK y \in delivery : y.project = d.project /\ y.key = d.key /\ y.binding = d.bytes
    BY <2>2, Zenon DEF BindingMatches
  <2>4. PICK m \in DOMAIN log : x.seq = m /\ log[m].project = x.project /\ log[m].key = x.key
    BY Zenon DEF DeliveryInv, Delivers
  <2>5. PICK n \in DOMAIN log : y.seq = n /\ log[n].project = y.project /\ log[n].key = y.key
    BY Zenon DEF DeliveryInv, Delivers
  <2>6. m = n
    BY <1>4, <2>1, <2>3, <2>4, <2>5
  <2>7. x = y
    BY <2>4, <2>5, <2>6, Zenon DEF DeliveryInv
  <2> QED
    BY <1>6, <2>1, <2>3, <2>7, Zenon
<1>8. CASE c.payload.kind # "send_pty_input"
  <2>1. WellFormed(c) /\ WellFormed(d)
    BY RouteInRows, Zenon DEF LogInv
  <2> QED
    BY <1>6, <1>8, <2>1, Zenon DEF WellFormed
<1> QED
  BY <1>6, <1>7, <1>8, Zenon

LEMMA DeliveryStep ==
    ASSUME LogInv, DeliveryInv, [Next /\ UNCHANGED menu]_<<vars, menu>>
    PROVE  DeliveryInv'
<1>1. TypeInv /\ Opening
  BY Zenon DEF LogInv
<1>2. CASE Landed
  <2>1. PICK c \in Menus[menu], v \in Nat : Lands(c, v) /\ menu' = menu
    BY <1>2, Zenon DEF Landed
  <2> PICK e : e = build_event(c, v)
    BY Zenon
  <2> PICK N \in Nat : N = Len(log)
    BY DEF LogInv, TypeInv
  <2>2. /\ DOMAIN log = 1 .. N /\ DOMAIN log' = 1 .. N + 1
        /\ log'[N + 1] = e /\ \A i \in 1 .. N : log'[i] = log[i]
    BY <1>1, <2>1, AppendFacts, Zenon DEF Lands, TypeInv
  <2>3. e.project = c.project /\ e.key = c.key /\ e.payload = c.payload
    BY <1>1, <2>1, LandFacts, Zenon DEF Carries
  <2>4. ASSUME NEW d, NEW i \in DOMAIN log, Delivers(d, i)
        PROVE  i \in DOMAIN log' /\ Delivers(d, i)'
    BY <2>2, <2>4 DEF Delivers
  <2>5. CASE c.payload.kind \in ReceiptedPty
    <3> PICK x : x = [project |-> c.project, key |-> c.key, cid |-> c.cid,
                      seq |-> N + 1, binding |-> c.bytes]
      BY Zenon
    <3>1. delivery' = delivery \cup {x}
      BY <2>1, <2>5, Zenon DEF Lands, InsertDelivery
    <3>2. Delivers(x, N + 1)' /\ N + 1 \in DOMAIN log'
      BY <2>2, <2>3, <2>5 DEF Delivers
    <3>3. \A d \in delivery : d.cid # x.cid
      BY <2>1, <2>5, Zenon DEF Lands, New, Unused
    <3>4. \A d \in delivery : d.seq # x.seq
      BY <2>2 DEF DeliveryInv, Delivers
    <3>5. \A d \in delivery' : \E i \in DOMAIN log' : Delivers(d, i)'
      BY <2>4, <3>1, <3>2, Zenon DEF DeliveryInv
    <3>6. \A i \in DOMAIN log' : i # N + 1 => i \in DOMAIN log /\ log'[i] = log[i]
      BY <2>2
    <3>7. \A i \in DOMAIN log' : log'[i].payload.kind \in ReceiptedPty =>
            \E d \in delivery' : Delivers(d, i)'
      BY <2>4, <3>1, <3>2, <3>6, Zenon DEF DeliveryInv
    <3>8. \A d, f \in delivery' : d.cid = f.cid \/ d.seq = f.seq => d = f
      BY <3>1, <3>3, <3>4 DEF DeliveryInv
    <3> QED
      BY <3>5, <3>7, <3>8, Zenon DEF DeliveryInv
  <2>6. CASE c.payload.kind \notin ReceiptedPty
    <3>1. delivery' = delivery
      BY <2>1, <2>6, Zenon DEF Lands, InsertDelivery
    <3>2. \A i \in DOMAIN log' : log'[i].payload.kind \in ReceiptedPty =>
            i \in DOMAIN log /\ log'[i] = log[i]
      BY <2>2, <2>3, <2>6
    <3>3. \A d \in delivery' : \E i \in DOMAIN log' : Delivers(d, i)'
      BY <2>4, <3>1, Zenon DEF DeliveryInv
    <3>4. \A i \in DOMAIN log' : log'[i].payload.kind \in ReceiptedPty =>
            \E d \in delivery' : Delivers(d, i)'
      BY <2>4, <3>1, <3>2, Zenon DEF DeliveryInv
    <3>5. \A d, f \in delivery' : d.cid = f.cid \/ d.seq = f.seq => d = f
      BY <3>1, Zenon DEF DeliveryInv
    <3> QED
      BY <3>3, <3>4, <3>5, Zenon DEF DeliveryInv
  <2> QED
    BY <2>5, <2>6, Zenon
<1>3. CASE Opened
  <2>1. /\ DOMAIN log = {} /\ DOMAIN log' = {1} /\ log'[1] = GenesisEvent /\ delivery' = delivery
    BY <1>1, <1>3, GenesisLog, Zenon DEF Opened, ensure_genesis
  <2>2. GenesisEvent.payload.kind \notin ReceiptedPty
    BY Zenon DEF GenesisEvent, ReceiptedPty
  <2>3. delivery = {}
    BY <2>1, Zenon DEF DeliveryInv
  <2> QED
    BY <2>1, <2>2, <2>3, Zenon DEF DeliveryInv
<1>4. CASE Paged \/ Refused \/ Kept
  <2>1. log' = log /\ delivery' = delivery
    BY <1>4, Zenon DEF Paged, paged, Refused, Kept
  <2> QED
    BY <2>1 DEF DeliveryInv, Delivers
<1> QED
  BY <1>1, <1>2, <1>3, <1>4, StepCases, Zenon

-----------------------------------------------------------------------------
(***************************************************************************)
(* The pages.                                                              *)
(***************************************************************************)
ItemBody(b) == b = [topic |-> b.topic, subject |-> b.subject]

PageInv ==
    /\ PagesReachTheOperator
    /\ \A a \in DOMAIN rows : a[1] = "attention_item" /\ Present(rows, a) => ItemBody(rows[a].body)

\* What any step does to the attention items: it leaves an item's body alone, it
\* resolves it or not, and it raises one item where the pair has none open.
ItemStep ==
    /\ DOMAIN rows' = DOMAIN rows
    /\ \A a \in DOMAIN rows : a[1] = "attention_item" =>
        \/ rows'[a] = rows[a]
        \/ /\ Present(rows, a)
           /\ rows'[a].body = rows[a].body /\ rows'[a].state \in {rows[a].state, "resolved"}
        \/ /\ ~Present(rows, a) /\ rows'[a].state = "open" /\ ItemBody(rows'[a].body)
           /\ unresolved_attention(rows, rows'[a].body.topic, rows'[a].body.subject) = {}
           /\ \A b \in DOMAIN rows : b # a => rows'[b] = rows[b]

LEMMA LandItems ==
    ASSUME TypeInv, NEW c \in Menus[menu], NEW v \in Nat, Lands(c, v)
    PROVE  ItemStep
<1> PICK t : t = route_of(c)[1]
  BY Zenon
<1> PICK k : k = c.payload.kind
  BY Zenon
<1>1. /\ DOMAIN rows' = DOMAIN rows /\ Written(c, v)
      /\ \A b \in DOMAIN rows : b # route_of(c) => rows'[b] = rows[b]
  BY Land, Zenon DEF Lands, TypeInv
<1>2. CASE t # "attention_item"
  BY <1>1, <1>2, Zenon DEF ItemStep
<1>3. CASE t = "attention_item"
  <2> PICK a : a = route_of(c)
    BY Zenon
  <2>1. /\ t \notin Rowless /\ t # "orchestrator_checkpoint" /\ k \notin Removes
        /\ k # "move_workspace_node" /\ WellFormed(c)
    <3>1. t \notin Rowless /\ t # "orchestrator_checkpoint" /\ t \in TableNames
      BY <1>3, Zenon DEF Rowless, TableNames
    <3>2. k \in KindsOf(t)
      BY <1>1, <3>1, Zenon DEF Written
    <3> QED
      BY <1>3, <3>1, <3>2, AttentionTable, RemovesAre, RouteInRows, Zenon
  <2>2. CASE k \in InsertKinds
    <3>1. /\ ~Present(rows, a) /\ k \in KindsOf(t)
          /\ rows'[a] = [version |-> RowVersion(t, v + 1), state |-> Tables[t].initial,
                         key |-> c.key, body |-> c.payload.arg]
      BY <1>1, <2>1, <2>2, Zenon DEF Written
    <3>2. k = "raise_attention"
      BY <1>3, <2>2, <3>1, AttentionTable, Zenon DEF InsertKinds
    <3>3. unresolved_attention(rows, c.payload.arg.topic, c.payload.arg.subject) = {}
      BY <1>1, <2>1, <2>2, <3>2, Zenon DEF Written
    <3>4. ItemBody(c.payload.arg)
      BY <2>1, <3>2, Zenon DEF WellFormed, ItemBody
    <3>5. rows'[a].state = "open" /\ rows'[a].body = c.payload.arg
      BY <1>3, <3>1, AttentionTable
    <3> QED
      BY <1>1, <3>1, <3>3, <3>4, <3>5, Zenon DEF ItemStep
  <2>3. CASE k \notin InsertKinds
    <3>1. /\ Present(rows, a) /\ k \in KindsOf(t)
          /\ rows'[a] = [version |-> RowVersion(t, v + 1),
                         state |-> StateAfter(t, k, c.payload.to, rows[a].state),
                         key |-> rows[a].key, body |-> rows[a].body]
      BY <1>1, <2>1, <2>3, Zenon DEF Written
    <3>2. rows'[a].body = rows[a].body
      BY <3>1
    <3>3. StateAfter(t, k, c.payload.to, rows[a].state) \in {rows[a].state, "resolved"}
      <4>1. CASE k = "resolve_attention"
        BY <1>3, <4>1, StampedStates, Zenon
      <4>2. CASE k # "resolve_attention"
        <5>1. k \notin Tables[t].move /\ \A p \in Tables[t].stamp : p[1] # k
          BY <1>3, <4>2, AttentionTable, SMTT(30)
        <5> QED
          BY <5>1, Unstamped, Zenon
      <4> QED
        BY <4>1, <4>2, Zenon
    <3>4. rows'[a].state \in {rows[a].state, "resolved"}
      BY <3>1, <3>3
    <3> QED
      BY <1>1, <3>1, <3>2, <3>4, Zenon DEF ItemStep
  <2> QED
    BY <2>2, <2>3, Zenon
<1> QED
  BY <1>2, <1>3, Zenon

LEMMA PagedItems ==
    ASSUME TypeInv, NEW c \in Menus[menu], paged(c)
    PROVE  /\ ItemStep
           /\ \E a \in DOMAIN rows :
                /\ a[1] = "attention_item" /\ rows'[a].state = "open"
                /\ rows'[a].body.topic = "authority" /\ rows'[a].body.subject = route_of(c)
<1> PICK p : p = PageId(class_of(c.payload), route_of(c))
  BY Zenon
<1> DEFINE R == Unkeyed("open", [topic |-> "authority", subject |-> route_of(c)])
<1>1. /\ DOMAIN rows' = DOMAIN rows /\ p \in DOMAIN rows /\ p[1] = "attention_item"
      /\ \A b \in DOMAIN rows : b # p => rows'[b] = rows[b]
      /\ \/ rows' = rows /\ unresolved_attention(rows, "authority", route_of(c)) # {}
         \/ /\ ~Present(rows, p)
            /\ unresolved_attention(rows, "authority", route_of(c)) = {}
            /\ rows'[p] = R
  BY PagedRows, Zenon DEF TypeInv
<1>2. CASE rows' = rows /\ unresolved_attention(rows, "authority", route_of(c)) # {}
  <2>1. ItemStep
    BY <1>2, Zenon DEF ItemStep
  <2>2. PICK a : a \in unresolved_attention(rows, "authority", route_of(c))
    BY <1>2, Zenon
  <2> QED
    BY <1>2, <2>1, <2>2, Zenon DEF unresolved_attention
<1>3. CASE /\ ~Present(rows, p)
           /\ unresolved_attention(rows, "authority", route_of(c)) = {}
           /\ rows'[p] = R
  <2>1. /\ R.state = "open" /\ R.body.topic = "authority" /\ R.body.subject = route_of(c)
        /\ ItemBody(R.body)
    BY Zenon DEF Unkeyed, ItemBody
  <2> HIDE DEF R
  <2> QED
    BY <1>1, <1>3, <2>1, Zenon DEF ItemStep
<1> QED
  BY <1>1, <1>2, <1>3, Zenon

\* An item that is there stays there with its body, and no pair gets two open ones.
LEMMA ItemsKept ==
    ASSUME PageInv, ItemStep
    PROVE  /\ \A a \in DOMAIN rows : a[1] = "attention_item" /\ Present(rows, a) =>
                Present(rows', a) /\ rows'[a].body = rows[a].body
           /\ \A a \in DOMAIN rows' : a[1] = "attention_item" /\ Present(rows', a) =>
                ItemBody(rows'[a].body)
           /\ \A a, b \in DOMAIN rows' :
                /\ a[1] = "attention_item" /\ b[1] = "attention_item"
                /\ rows'[a].state = "open" /\ rows'[b].state = "open"
                /\ rows'[a].body = rows'[b].body
                => a = b
<1>1. ASSUME NEW a \in DOMAIN rows, a[1] = "attention_item", Present(rows, a)
      PROVE  Present(rows', a) /\ rows'[a].body = rows[a].body
  BY <1>1, Zenon DEF ItemStep, Present
<1>2. ASSUME NEW a \in DOMAIN rows, a[1] = "attention_item", Present(rows', a)
      PROVE  ItemBody(rows'[a].body)
  <2>1. CASE Present(rows, a)
    BY <1>1, <1>2, <2>1, Zenon DEF PageInv
  <2>2. CASE ~Present(rows, a)
    BY <1>2, <2>2, Zenon DEF ItemStep, Present
  <2> QED
    BY <2>1, <2>2, Zenon
<1>3. ASSUME NEW a \in DOMAIN rows, NEW b \in DOMAIN rows, a # b,
             a[1] = "attention_item", b[1] = "attention_item",
             rows[a].state = "open", rows[b].state = "open"
      PROVE  rows[a].body # rows[b].body
  <2>1. Present(rows, a) /\ Present(rows, b)
    BY <1>3, Zenon DEF Present
  <2> QED
    BY <1>3, <2>1, Zenon DEF PageInv, PagesReachTheOperator, Aggregates
<1>4. ASSUME NEW a \in DOMAIN rows, NEW b \in DOMAIN rows, a # b,
             a[1] = "attention_item", b[1] = "attention_item",
             rows'[a].state = "open", rows'[b].state = "open", ~Present(rows, a)
      PROVE  rows'[a].body # rows'[b].body
  <2>1. /\ rows'[b] = rows[b]
        /\ unresolved_attention(rows, rows'[a].body.topic, rows'[a].body.subject) = {}
    BY <1>4, Zenon DEF ItemStep, Present
  <2>2. SUFFICES ASSUME rows'[a].body = rows'[b].body PROVE FALSE
    BY Zenon
  <2>3. b \in unresolved_attention(rows, rows'[a].body.topic, rows'[a].body.subject)
    BY <1>4, <2>1, <2>2, Zenon DEF unresolved_attention
  <2> QED
    BY <2>1, <2>3, Zenon
<1>5. ASSUME NEW a \in DOMAIN rows, NEW b \in DOMAIN rows, a # b,
             a[1] = "attention_item", b[1] = "attention_item",
             rows'[a].state = "open", rows'[b].state = "open"
      PROVE  rows'[a].body # rows'[b].body
  <2>1. CASE ~Present(rows, a)
    BY <1>4, <1>5, <2>1, Zenon
  <2>2. CASE ~Present(rows, b)
    BY <1>4, <1>5, <2>2, Zenon
  <2>3. CASE Present(rows, a) /\ Present(rows, b)
    <3>1. /\ rows'[a].body = rows[a].body /\ rows'[b].body = rows[b].body
          /\ rows[a].state = "open" /\ rows[b].state = "open"
      BY <1>5, <2>3, Zenon DEF ItemStep, Present
    <3> QED
      BY <1>3, <1>5, <3>1, Zenon
  <2> QED
    BY <2>1, <2>2, <2>3, Zenon
<1>6. DOMAIN rows' = DOMAIN rows
  BY Zenon DEF ItemStep
<1> QED
  BY <1>1, <1>2, <1>5, <1>6, Zenon

LEMMA PageStep ==
    ASSUME LogInv, PageInv, [Next /\ UNCHANGED menu]_<<vars, menu>>
    PROVE  PageInv'
<1>1. TypeInv /\ Opening
  BY Zenon DEF LogInv
<1>2. ASSUME ItemStep,
             \A r \in receipt' : IsPage(r) =>
                 \/ r \in receipt
                 \/ \E a \in DOMAIN rows : /\ a[1] = "attention_item" /\ rows'[a].state = "open"
                                           /\ rows'[a].body.topic = "authority"
                                           /\ rows'[a].body.subject = r.subject
      PROVE  PageInv'
  <2>1. /\ \A a \in DOMAIN rows : a[1] = "attention_item" /\ Present(rows, a) =>
            Present(rows', a) /\ rows'[a].body = rows[a].body
        /\ \A a \in DOMAIN rows' : a[1] = "attention_item" /\ Present(rows', a) =>
            ItemBody(rows'[a].body)
        /\ \A a, b \in DOMAIN rows' :
            /\ a[1] = "attention_item" /\ b[1] = "attention_item"
            /\ rows'[a].state = "open" /\ rows'[b].state = "open"
            /\ rows'[a].body = rows'[b].body
            => a = b
        /\ DOMAIN rows' = DOMAIN rows
    BY <1>2, ItemsKept, Zenon DEF ItemStep
  <2>2. ASSUME NEW r \in receipt', IsPage(r)
        PROVE  \E a \in DOMAIN rows' : /\ a[1] = "attention_item" /\ Present(rows', a)
                                       /\ rows'[a].body = [topic |-> "authority", subject |-> r.subject]
    <3>1. CASE r \in receipt
      <4>1. PICK a \in DOMAIN rows : /\ a[1] = "attention_item" /\ Present(rows, a)
                                     /\ rows[a].body = [topic |-> "authority", subject |-> r.subject]
        BY <2>2, <3>1, Zenon DEF PageInv, PagesReachTheOperator, IsPage, Aggregates
      <4> QED
        BY <2>1, <4>1, Zenon
    <3>2. ASSUME NEW a \in DOMAIN rows, a[1] = "attention_item", rows'[a].state = "open",
                 rows'[a].body.topic = "authority", rows'[a].body.subject = r.subject
          PROVE  /\ Present(rows', a)
                 /\ rows'[a].body = [topic |-> "authority", subject |-> r.subject]
      <4>1. Present(rows', a)
        BY <3>2, Zenon DEF Present
      <4>2. ItemBody(rows'[a].body)
        BY <2>1, <3>2, <4>1, Zenon
      <4> QED
        BY <3>2, <4>1, <4>2, Zenon DEF ItemBody
    <3> QED
      BY <1>2, <2>1, <2>2, <3>1, <3>2, Zenon
  <2>3. PagesReachTheOperator'
    BY <2>1, <2>2, Zenon DEF PagesReachTheOperator, IsPage, Aggregates
  <2> QED
    BY <2>1, <2>3, Zenon DEF PageInv
<1>3. CASE Landed
  <2>1. PICK c \in Menus[menu], v \in Nat : Lands(c, v) /\ menu' = menu
    BY <1>3, Zenon DEF Landed
  <2>2. ItemStep
    BY <1>1, <2>1, LandItems, Zenon
  <2>3. \A r \in receipt' : IsPage(r) => r \in receipt
    BY <1>1, <2>1, LandReceipt, Zenon
  <2> QED
    BY <1>2, <2>2, <2>3, Zenon
<1>4. CASE Paged
  <2>1. PICK c \in Menus[menu] : paged(c)
    BY <1>4, Zenon DEF Paged
  <2> PICK q : q = receipt_for(c, evaluate(c), "none")
    BY Zenon
  <2>2. receipt' = receipt \cup {q} /\ q.subject = route_of(c)
    BY <2>1, ReceiptFacts DEF paged, write_receipt
  <2>3. /\ ItemStep
        /\ \E a \in DOMAIN rows :
            /\ a[1] = "attention_item" /\ rows'[a].state = "open"
            /\ rows'[a].body.topic = "authority" /\ rows'[a].body.subject = q.subject
    BY <1>1, <2>1, <2>2, PagedItems, Zenon
  <2>4. \A r \in receipt' : r \in receipt \/ r = q
    BY <2>2, Zenon
  <2> QED
    BY <1>2, <2>3, <2>4, Zenon
<1>5. CASE Opened \/ Refused \/ Kept
  <2>1. rows' = rows
    BY <1>5, Zenon DEF Opened, ensure_genesis, Refused, Kept
  <2>2. ItemStep
    BY <2>1, Zenon DEF ItemStep
  <2>3. \A r \in receipt' : IsPage(r) => r \in receipt
    BY <1>5, Zenon DEF Opened, ensure_genesis, Refused, Kept
  <2> QED
    BY <1>2, <2>2, <2>3, Zenon
<1> QED
  BY <1>1, <1>3, <1>4, <1>5, StepCases, Zenon
-----------------------------------------------------------------------------
AnswersInv == LogInv /\ ReceiptsTruthful /\ DeliveryInv /\ PageInv

LEMMA InitAnswers == Init => AnswersInv
<1> SUFFICES ASSUME Init PROVE AnswersInv
  BY Zenon
<1>1. LogInv /\ Events = {} /\ DOMAIN log = {}
  BY InitLog DEF JustInv, Init, Events
<1>2. ReceiptsTruthful /\ DeliveryInv
  BY <1>1, Zenon DEF Init, ReceiptsTruthful, DeliveryInv
<1>3. \A a \in DOMAIN rows : ~Present(rows, a) /\ rows[a].state # "open"
  BY Zenon DEF Init, NoRow, Unkeyed, Present
<1>4. receipt = {}
  BY Zenon DEF Init
<1>5. PagesReachTheOperator
  BY <1>3, <1>4, Zenon DEF PagesReachTheOperator, Aggregates
<1> QED
  BY <1>1, <1>2, <1>3, <1>5, Zenon DEF AnswersInv, PageInv

\* What is recorded of a request is one story, whatever is retried, paged, refused or
\* submitted under the same key: its receipt, the one request its key answers for,
\* and the page that asks the operator (write_receipt, prior_for_key, paged).
THEOREM SubmitAnswers == Spec => []AnswersHold
<1>1. Init => AnswersInv
  BY InitAnswers, Zenon
<1>2. AnswersInv /\ [Next /\ UNCHANGED menu]_<<vars, menu>> => AnswersInv'
  BY LogStep, ReceiptsStep, DeliveryStep, PageStep, Zenon DEF AnswersInv
<1>3. AnswersInv => AnswersHold
  BY OneRequest, Zenon DEF AnswersInv, AnswersHold, PageInv
<1> QED
  BY <1>1, <1>2, <1>3, PTL DEF Spec

-----------------------------------------------------------------------------
(***************************************************************************)
(* The rows and the log.                                                   *)
(***************************************************************************)
VersionInv ==
    \A a \in DOMAIN rows : a[1] \in TableNames /\ Tables[a[1]].versioned =>
        IF Present(rows, a) THEN rows[a].version = current_aggregate_version(a)
        ELSE /\ rows[a].version = 0
             /\ a[1] # "workspace_node" => current_aggregate_version(a) = 0

\* No kind of command leaves a present row with the marker of an absent one.
LEMMA StaysPresent ==
    ASSUME NEW t \in TableNames, NEW k, NEW to, NEW s, to # "absent", s # "absent"
    PROVE  StateAfter(t, k, to, s) # "absent"
<1>1. CASE k \in Tables[t].move
  <2>1. ~\E p \in Tables[t].stamp : p[1] = k
    BY <1>1, TableFacts, Zenon
  <2> QED
    BY <1>1, <2>1, Zenon DEF StateAfter
<1>2. CASE k \notin Tables[t].move /\ \E p \in Tables[t].stamp : p[1] = k
  <2> DEFINE q == CHOOSE p \in Tables[t].stamp : p[1] = k
  <2>1. StateAfter(t, k, to, s) = q[2]
    BY <1>2, Zenon DEF StateAfter
  <2>2. q \in Tables[t].stamp
    BY <1>2, Zenon
  <2> HIDE DEF q
  <2> QED
    BY <2>1, <2>2, TableFacts, Zenon
<1>3. CASE k \notin Tables[t].move /\ ~\E p \in Tables[t].stamp : p[1] = k
  BY <1>3, Zenon DEF StateAfter
<1> QED
  BY <1>1, <1>2, <1>3, Zenon

\* A table's row after a command that lands: absent after a close, else there at
\* the version of the event.
LEMMA LandVersion ==
    ASSUME TypeInv, NEW c \in Menus[menu], NEW v \in Nat, Lands(c, v),
           route_of(c)[1] \in TableNames, Tables[route_of(c)[1]].versioned
    PROVE  LET a == route_of(c) IN
           \/ a[1] = "workspace_node" /\ ~Present(rows', a) /\ rows'[a].version = 0
           \/ Present(rows', a) /\ rows'[a].version = v + 1
<1> PICK a : a = route_of(c)
  BY Zenon
<1> PICK t : t = a[1]
  BY Zenon
<1> PICK k : k = c.payload.kind
  BY Zenon
<1>1. Written(c, v) /\ c.payload.to # "absent"
  BY Land, RouteInRows, Zenon DEF Lands, WellFormed
<1>2. t \notin Rowless /\ t # "orchestrator_checkpoint" /\ t \in TableNames /\ RowVersion(t, v + 1) = v + 1
  BY Zenon DEF Rowless, TableNames, RowVersion
<1>3. k \in KindsOf(t)
  BY <1>1, <1>2, Zenon DEF Written
<1>4. CASE k \in InsertKinds
  <2>1. rows'[a] = [version |-> RowVersion(t, v + 1), state |-> Tables[t].initial,
                    key |-> c.key, body |-> c.payload.arg]
    BY <1>1, <1>2, <1>4, Zenon DEF Written
  <2> QED
    BY <1>2, <2>1, TableFacts DEF Present
<1>5. CASE k \in Removes
  <2>1. t = "workspace_node" /\ k \notin InsertKinds
    BY <1>2, <1>3, <1>5, RemovesAre, TableFacts, Zenon DEF InsertKinds
  <2>2. rows'[a] = NoRow
    BY <1>1, <1>2, <1>5, <2>1, Zenon DEF Written
  <2> QED
    BY <2>1, <2>2 DEF NoRow, Unkeyed, Present
<1>6. CASE k \notin InsertKinds /\ k \notin Removes /\ k = "move_workspace_node"
  <2>1. /\ rows'[a] = [version |-> v + 1, state |-> rows[a].state, key |-> rows[a].key,
                       body |-> [rows[a].body EXCEPT !.parent = c.payload.arg.parent]]
        /\ Present(rows, a)
    BY <1>1, <1>2, <1>6, Zenon DEF Written
  <2> QED
    BY <2>1 DEF Present
<1>7. CASE k \notin InsertKinds /\ k \notin Removes /\ k # "move_workspace_node"
  <2>1. /\ rows'[a] = [version |-> RowVersion(t, v + 1),
                       state |-> StateAfter(t, k, c.payload.to, rows[a].state),
                       key |-> rows[a].key, body |-> rows[a].body]
        /\ Present(rows, a)
    BY <1>1, <1>2, <1>7, Zenon DEF Written
  <2>2. StateAfter(t, k, c.payload.to, rows[a].state) # "absent"
    BY <1>1, <1>2, <2>1, StaysPresent, Zenon DEF Present
  <2> QED
    BY <1>2, <2>1, <2>2 DEF Present
<1> QED
  BY <1>4, <1>5, <1>6, <1>7, Zenon

LEMMA VersionStep ==
    ASSUME LogInv, VersionInv, [Next /\ UNCHANGED menu]_<<vars, menu>>
    PROVE  VersionInv'
<1>1. TypeInv /\ Opening
  BY Zenon DEF LogInv
<1> DEFINE C(a) == current_aggregate_version(a)
<1>2. ASSUME NEW a, rows'[a] = rows[a], C(a)' = C(a), a \in DOMAIN rows,
             a[1] \in TableNames, Tables[a[1]].versioned
      PROVE  IF Present(rows', a) THEN rows'[a].version = C(a)'
             ELSE rows'[a].version = 0 /\ (a[1] # "workspace_node" => C(a)' = 0)
  <2> HIDE DEF C
  <2>1. IF Present(rows, a) THEN rows[a].version = C(a)
        ELSE rows[a].version = 0 /\ (a[1] # "workspace_node" => C(a) = 0)
    BY <1>2, Zenon DEF VersionInv, C
  <2> QED
    BY <1>2, <2>1, Zenon DEF Present
<1>3. CASE Landed
  <2>1. PICK c \in Menus[menu], v \in Nat : Lands(c, v) /\ menu' = menu
    BY <1>3, Zenon DEF Landed
  <2> PICK e : e = build_event(c, v)
    BY Zenon
  <2>2. log' = Append(log, e) /\ e.aggregate = route_of(c) /\ log \in Seq(Events)
    BY <1>1, <2>1, LandFacts, Zenon DEF Carries
  <2>3. /\ DOMAIN rows' = DOMAIN rows
        /\ \A b \in DOMAIN rows : b # route_of(c) => rows'[b] = rows[b]
    BY <1>1, <2>1, Land, Zenon DEF Lands, TypeInv
  <2>4. C(route_of(c)) = v
    BY <2>1, Zenon DEF Lands
  <2>5. Numbered /\ e.version = current_aggregate_version(e.aggregate) + 1
    BY <1>1, <2>1, <2>2, <2>4, LandFacts, Zenon DEF LogInv
  <2>6. ASSUME NEW a \in DOMAIN rows, a[1] \in TableNames, Tables[a[1]].versioned
        PROVE  IF Present(rows', a) THEN rows'[a].version = C(a)'
               ELSE rows'[a].version = 0 /\ (a[1] # "workspace_node" => C(a)' = 0)
    <3>1. CASE a = route_of(c)
      <4>1. C(a)' = C(a) + 1
        BY <2>2, <2>5, <3>1, CountAppend, Zenon
      <4>2. C(a)' = v + 1
        BY <2>4, <3>1, <4>1, Zenon
      <4>3. \/ a[1] = "workspace_node" /\ ~Present(rows', a) /\ rows'[a].version = 0
            \/ Present(rows', a) /\ rows'[a].version = v + 1
        BY <1>1, <2>1, <2>6, <3>1, LandVersion, Zenon
      <4> HIDE DEF C
      <4> QED
        BY <4>2, <4>3, Zenon
    <3>2. CASE a # route_of(c)
      <4>1. C(a)' = C(a)
        BY <2>2, <2>5, <3>2, CountAppend, Zenon
      <4> QED
        BY <1>2, <2>3, <2>6, <3>2, <4>1, Zenon
    <3> QED
      BY <3>1, <3>2, Zenon
  <2> QED
    BY <2>3, <2>6, Zenon DEF VersionInv
<1>4. CASE Opened
  <2>1. rows' = rows /\ log' = Append(log, GenesisEvent) /\ log \in Seq(Events) /\ DOMAIN log = {}
    BY <1>1, <1>4, GenesisLog, Zenon DEF Opened, ensure_genesis
  <2>2. Numbered /\ GenesisEvent.version = current_aggregate_version(GenesisEvent.aggregate) + 1
    BY <2>1, CountFacts DEF LogInv, GenesisEvent
  <2>3. GenesisEvent.aggregate[1] \notin TableNames
    BY Zenon DEF GenesisEvent, KernelAggregate, TableNames
  <2>4. ASSUME NEW a, a[1] \in TableNames PROVE C(a)' = C(a)
    <3>1. GenesisEvent.aggregate # a
      BY <2>3, <2>4, Zenon
    <3> QED
      BY <2>1, <2>2, <3>1, CountAppend, Zenon
  <2> QED
    BY <1>2, <2>1, <2>4, Zenon DEF VersionInv
<1>5. CASE Paged
  <2>1. PICK c \in Menus[menu] : paged(c)
    BY <1>5, Zenon DEF Paged
  <2>2. /\ DOMAIN rows' = DOMAIN rows
        /\ \A a \in DOMAIN rows : a[1] # "attention_item" => rows'[a] = rows[a]
    BY <1>1, <2>1, PagedRows, Zenon DEF TypeInv
  <2>3. log' = log
    BY <2>1, Zenon DEF paged
  <2>4. ~Tables["attention_item"].versioned
    BY AttentionTable, Zenon
  <2>5. \A a : C(a)' = C(a)
    BY <2>3, SameVersions, Zenon
  <2>6. \A a \in DOMAIN rows : Tables[a[1]].versioned => rows'[a] = rows[a]
    BY <2>2, <2>4, Zenon
  <2> QED
    BY <1>2, <2>2, <2>5, <2>6, Zenon DEF VersionInv
<1>6. CASE Refused \/ Kept
  <2>1. rows' = rows /\ log' = log
    BY <1>6, Zenon DEF Refused, Kept
  <2>2. \A a : C(a)' = C(a)
    BY <2>1, SameVersions, Zenon
  <2> QED
    BY <1>2, <2>1, <2>2, Zenon DEF VersionInv
<1> QED
  BY <1>1, <1>3, <1>4, <1>5, <1>6, StepCases, Zenon

CursorInv ==
    \A e \in Events : e.aggregate[1] = "orchestrator_checkpoint" =>
        /\ e.aggregate \in DOMAIN rows /\ Present(rows, e.aggregate)
        /\ e.payload.arg.seq \in Nat /\ rows[e.aggregate].body.seq \in Nat
        /\ e.payload.arg.seq <= rows[e.aggregate].body.seq

\* decide lets a checkpoint land past the stored one only.
LEMMA LandCursor ==
    ASSUME TypeInv, NEW c \in Menus[menu], NEW v \in Nat, Lands(c, v),
           route_of(c)[1] = "orchestrator_checkpoint"
    PROVE  LET a == route_of(c) IN
           /\ a \in DOMAIN rows /\ c.payload.arg.seq \in Nat
           /\ Present(rows', a) /\ rows'[a].body.seq = c.payload.arg.seq
           /\ Present(rows, a) => c.payload.arg.seq > rows[a].body.seq
<1> PICK a : a = route_of(c)
  BY Zenon
<1>1. Written(c, v) /\ WellFormed(c) /\ a \in DOMAIN rows
  BY Land, RouteInRows, Zenon DEF Lands
<1>2. a[1] = "orchestrator_checkpoint" /\ a[1] \notin Rowless /\ a[1] \notin TableNames
  BY Zenon DEF Rowless, TableNames
<1>3. c.payload.kind = UpsertKind /\ rows'[a] = Unkeyed("latest", c.payload.arg)
  BY <1>1, <1>2, Zenon DEF Written
<1>4. c.payload.arg.seq \in Nat
  BY <1>1, <1>3, Zenon DEF WellFormed
<1>5. Present(rows', a) /\ rows'[a].body = c.payload.arg
  BY <1>3 DEF Unkeyed, Present
<1>6. DecideCheckpoint(c, v)
  <2>1. c.payload.kind = "write_orchestrator_checkpoint" /\ c.payload.kind \notin Inserts
    BY <1>3, InsertsAre, Zenon DEF UpsertKind, InsertKinds
  <2> QED
    BY <2>1, Zenon DEF Lands, decide, CasKinds, TakeKinds, TransitionKinds, DecideWorkspace,
       DecideWorkflow, DecidePtyLedger, DecidePtyControl, DecideTemplate
<1>7. Present(rows, a) => c.payload.arg.seq > rows[a].body.seq
  <2>1. Present(rows, route_of(c)) => c.payload.arg.seq > rows[route_of(c)].body.seq
    BY <1>6, Zenon DEF DecideCheckpoint, Row
  <2> QED
    BY <2>1, Zenon
<1> QED
  BY <1>1, <1>4, <1>5, <1>7, Zenon

LEMMA CursorStep ==
    ASSUME LogInv, CursorInv, [Next /\ UNCHANGED menu]_<<vars, menu>>
    PROVE  CursorInv'
<1>1. TypeInv /\ Opening
  BY Zenon DEF LogInv
<1> DEFINE K == "orchestrator_checkpoint"
<1>2. CASE Landed
  <2>1. PICK c \in Menus[menu], v \in Nat : Lands(c, v) /\ menu' = menu
    BY <1>2, Zenon DEF Landed
  <2> PICK e : e = build_event(c, v)
    BY Zenon
  <2> PICK a : a = route_of(c)
    BY Zenon
  <2>2. Events' = Events \cup {e} /\ e.aggregate = a /\ e.payload = c.payload
    BY <1>1, <2>1, LandFacts, AppendFacts, Zenon DEF Carries
  <2>3. /\ DOMAIN rows' = DOMAIN rows
        /\ \A b \in DOMAIN rows : b # a => rows'[b] = rows[b]
    BY <1>1, <2>1, Land, Zenon DEF Lands, TypeInv
  <2>4. CASE a[1] # K
    <3>1. \A f \in Events' : f.aggregate[1] = K => f \in Events /\ f.aggregate # a
      BY <2>2, <2>4, Zenon
    <3> QED
      BY <2>3, <3>1, Zenon DEF CursorInv, Present
  <2>5. CASE a[1] = K
    <3>1. /\ a \in DOMAIN rows /\ c.payload.arg.seq \in Nat
          /\ Present(rows', a) /\ rows'[a].body.seq = c.payload.arg.seq
          /\ Present(rows, a) => c.payload.arg.seq > rows[a].body.seq
      BY <1>1, <2>1, <2>5, LandCursor, Zenon
    <3>2. ASSUME NEW f \in Events', f.aggregate[1] = K
          PROVE  /\ f.aggregate \in DOMAIN rows' /\ Present(rows', f.aggregate)
                 /\ f.payload.arg.seq \in Nat /\ rows'[f.aggregate].body.seq \in Nat
                 /\ f.payload.arg.seq <= rows'[f.aggregate].body.seq
      <4>1. CASE f = e
        BY <2>2, <2>3, <3>1, <4>1
      <4>2. CASE f \in Events
        <5>1. /\ f.aggregate \in DOMAIN rows /\ Present(rows, f.aggregate)
              /\ f.payload.arg.seq \in Nat /\ rows[f.aggregate].body.seq \in Nat
              /\ f.payload.arg.seq <= rows[f.aggregate].body.seq
          BY <3>2, <4>2, Zenon DEF CursorInv
        <5>2. CASE f.aggregate = a
          BY <2>3, <3>1, <5>1, <5>2
        <5>3. CASE f.aggregate # a
          BY <2>3, <5>1, <5>3, Zenon DEF Present
        <5> QED
          BY <5>2, <5>3, Zenon
      <4> QED
        BY <2>2, <4>1, <4>2, Zenon
    <3> QED
      BY <3>2, Zenon DEF CursorInv
  <2> QED
    BY <2>4, <2>5, Zenon
<1>3. CASE Opened
  <2>1. Events' = {GenesisEvent}
    BY <1>1, <1>3, GenesisLog, Zenon DEF Opened
  <2>2. GenesisEvent.aggregate[1] # K
    BY Zenon DEF GenesisEvent, KernelAggregate
  <2> QED
    BY <2>1, <2>2, Zenon DEF CursorInv
<1>4. CASE Paged
  <2>1. PICK c \in Menus[menu] : paged(c)
    BY <1>4, Zenon DEF Paged
  <2>2. /\ DOMAIN rows' = DOMAIN rows
        /\ \A a \in DOMAIN rows : a[1] # "attention_item" => rows'[a] = rows[a]
    BY <1>1, <2>1, PagedRows, Zenon DEF TypeInv
  <2>3. Events' = Events
    BY <2>1, Zenon DEF paged, Events
  <2> QED
    BY <2>2, <2>3, Zenon DEF CursorInv, Present
<1>5. CASE Refused \/ Kept
  <2>1. rows' = rows /\ Events' = Events
    BY <1>5, Zenon DEF Refused, Kept, Events
  <2> QED
    BY <2>1, Zenon DEF CursorInv
<1> QED
  BY <1>1, <1>2, <1>3, <1>4, <1>5, StepCases, Zenon

-----------------------------------------------------------------------------
(***************************************************************************)
(* The workspace tree.  N is a set of nodes, B[m] the body of node m.      *)
(***************************************************************************)
NodeBody(b) == b = [node |-> b.node, parent |-> b.parent]

Fits(x, y) == \/ x = "tab" /\ y = "workspace"
              \/ x = "pane" /\ y \in {"tab", "pane"}

Sits(N, B, b) ==
    \/ b.node = "workspace" /\ b.parent = NoParent
    \/ b.parent \in N /\ Fits(b.node, B[b.parent].node)

\* Every node has its place, and following parents leaves every set of nodes.
Tree(N, B) ==
    /\ NoParent \notin N
    /\ \A m \in N : NodeBody(B[m]) /\ Sits(N, B, B[m])
    /\ \A S \in SUBSET N : S # {} => \E m \in S : B[m].parent \notin S

LEMMA TreeCreate ==
    ASSUME NEW N, NEW B, NEW N2, NEW B2, NEW n, Tree(N, B), n \notin N, n # NoParent,
           N2 = N \cup {n}, \A m \in N : B2[m] = B[m],
           NodeBody(B2[n]), Sits(N, B, B2[n])
    PROVE  Tree(N2, B2)
<1>1. NoParent \notin N2
  BY Zenon DEF Tree
<1>2. ASSUME NEW b, Sits(N, B, b) PROVE Sits(N2, B2, b)
  BY <1>2, Zenon DEF Sits
<1>3. \A m \in N2 : NodeBody(B2[m]) /\ Sits(N2, B2, B2[m])
  BY <1>2, Zenon DEF Tree
<1>4. ASSUME NEW S \in SUBSET N2, S # {} PROVE \E m \in S : B2[m].parent \notin S
  <2>1. CASE S \cap N = {}
    <3>1. S = {n}
      BY <1>4, <2>1, Zenon
    <3>2. B2[n].parent # n
      BY Zenon DEF Sits
    <3> QED
      BY <3>1, <3>2, Zenon
  <2>2. CASE S \cap N # {}
    <3>1. PICK m \in S \cap N : B[m].parent \notin S \cap N
      BY <2>2, Zenon DEF Tree
    <3>2. B[m].parent \in N \/ B[m].parent = NoParent
      BY <3>1, Zenon DEF Tree, Sits
    <3>3. B[m].parent \notin S
      BY <1>1, <3>1, <3>2, Zenon
    <3> QED
      BY <3>1, <3>3, Zenon
  <2> QED
    BY <2>1, <2>2, Zenon
<1> QED
  BY <1>1, <1>3, <1>4, Zenon DEF Tree

\* n moves under a node of a set C that is closed upwards and does not hold n.
Moves(N, B, B2, n, C) ==
    /\ n \in N /\ \A m \in N : m # n => B2[m] = B[m]
    /\ NodeBody(B2[n]) /\ B2[n].node = B[n].node
    /\ B2[n].parent \in N /\ Fits(B[n].node, B[B2[n].parent].node)
    /\ B2[n].parent \in C /\ n \notin C /\ \A m \in C \cap N : B[m].parent \in C

LEMMA TreeMove ==
    ASSUME NEW N, NEW B, NEW B2, NEW n, NEW C, Tree(N, B), Moves(N, B, B2, n, C)
    PROVE  Tree(N, B2)
<1> USE DEF Moves
<1>1. \A m \in N : B2[m].node = B[m].node
  BY Zenon
<1>2. \A m \in N : NodeBody(B2[m])
  BY Zenon DEF Tree
<1>3. ASSUME NEW m \in N PROVE Sits(N, B2, B2[m])
  <2>1. CASE m = n
    BY <1>1, <2>1, Zenon DEF Sits
  <2>2. CASE m # n
    <3>1. Sits(N, B, B[m]) /\ B2[m] = B[m]
      BY <2>2, Zenon DEF Tree
    <3> QED
      BY <1>1, <3>1, Zenon DEF Sits
  <2> QED
    BY <2>1, <2>2, Zenon
<1>4. ASSUME NEW S \in SUBSET N, S # {}, \A m \in S : B2[m].parent \in S PROVE FALSE
  <2>1. CASE n \notin S
    <3>1. \A m \in S : B[m].parent \in S
      BY <1>4, <2>1, Zenon
    <3> QED
      BY <1>4, <3>1, Zenon DEF Tree
  <2>2. CASE n \in S
    <3>1. B2[n].parent \in S \cap C
      BY <1>4, <2>2, Zenon
    <3>2. \A m \in S \cap C : B[m].parent \in S \cap C
      BY <1>4, Zenon
    <3>3. S \cap C \in SUBSET N
      BY Zenon
    <3>4. PICK m \in S \cap C : B[m].parent \notin S \cap C
      BY <3>1, <3>3, Zenon DEF Tree
    <3> QED
      BY <3>2, <3>4, Zenon
  <2> QED
    BY <2>1, <2>2, Zenon
<1>5. NoParent \notin N
  BY Zenon DEF Tree
<1> QED
  BY <1>2, <1>3, <1>4, <1>5, Zenon DEF Tree

Closes(N, B, N2, B2, n) ==
    N2 = N \ {n} /\ \A m \in N2 : B2[m] = B[m] /\ B[m].parent # n

LEMMA TreeClose ==
    ASSUME NEW N, NEW B, NEW N2, NEW B2, NEW n, Tree(N, B), Closes(N, B, N2, B2, n)
    PROVE  Tree(N2, B2)
<1> USE DEF Closes
<1>1. ASSUME NEW m \in N2 PROVE NodeBody(B2[m]) /\ Sits(N2, B2, B2[m])
  <2>1. m \in N /\ NodeBody(B[m]) /\ Sits(N, B, B[m]) /\ B2[m] = B[m] /\ B[m].parent # n
    BY Zenon DEF Tree
  <2> QED
    BY <2>1, Zenon DEF Sits
<1>2. ASSUME NEW S \in SUBSET N2, S # {} PROVE \E m \in S : B2[m].parent \notin S
  <2>1. S \in SUBSET N
    BY Zenon
  <2>2. PICK m \in S : B[m].parent \notin S
    BY <1>2, <2>1, Zenon DEF Tree
  <2> QED
    BY <2>2, Zenon
<1> QED
  BY <1>1, <1>2, Zenon DEF Tree

LEMMA TreeSame ==
    ASSUME NEW N, NEW B, NEW B2, Tree(N, B), \A m \in N : B2[m] = B[m]
    PROVE  Tree(N, B2)
<1>1. ASSUME NEW m \in N PROVE NodeBody(B2[m]) /\ Sits(N, B2, B2[m])
  BY Zenon DEF Tree, Sits
<1>2. \A S \in SUBSET N : S # {} => \E m \in S : B2[m].parent \notin S
  BY Zenon DEF Tree
<1> QED
  BY <1>1, <1>2, Zenon DEF Tree

NodesOf(r) == {a[2] : a \in {b \in DOMAIN r : b[1] = "workspace_node" /\ Present(r, b)}}
BodyOf(r) == [m \in NodesOf(r) |-> r[Node(m)].body]
TreeInv == Tree(NodesOf(rows), BodyOf(rows))

LEMMA InNodes ==
    ASSUME NEW r, \A a \in DOMAIN r : a = <<a[1], a[2]>>
    PROVE  \A m : m \in NodesOf(r) <=> Node(m) \in DOMAIN r /\ Present(r, Node(m))
<1>1. ASSUME NEW m, m \in NodesOf(r) PROVE Node(m) \in DOMAIN r /\ Present(r, Node(m))
  <2>1. PICK a \in DOMAIN r : a[1] = "workspace_node" /\ Present(r, a) /\ m = a[2]
    BY <1>1, Zenon DEF NodesOf
  <2>2. a = Node(m)
    BY <2>1, Zenon DEF Node
  <2> QED
    BY <2>1, <2>2, Zenon
<1>2. ASSUME NEW m, Node(m) \in DOMAIN r, Present(r, Node(m)) PROVE m \in NodesOf(r)
  <2>1. Node(m)[1] = "workspace_node" /\ Node(m)[2] = m
    BY Zenon DEF Node
  <2> QED
    BY <1>2, <2>1, Zenon DEF NodesOf
<1> QED
  BY <1>1, <1>2, Zenon

\* The nodes before and after a step that writes one row, that of node n or none.
LEMMA NodesStep ==
    ASSUME TypeInv, DOMAIN rows' = DOMAIN rows, NEW n,
           \A a \in DOMAIN rows : a[1] = "workspace_node" /\ a # Node(n) => rows'[a] = rows[a]
    PROVE  /\ n \in NodesOf(rows) <=> Node(n) \in DOMAIN rows /\ Present(rows, Node(n))
           /\ n \in NodesOf(rows') <=> Node(n) \in DOMAIN rows /\ Present(rows', Node(n))
           /\ \A m : m # n => (m \in NodesOf(rows) <=> m \in NodesOf(rows'))
           /\ \A m : m # n /\ m \in NodesOf(rows) => BodyOf(rows')[m] = BodyOf(rows)[m]
           /\ \A m \in NodesOf(rows) : BodyOf(rows)[m] = rows[Node(m)].body
           /\ \A m \in NodesOf(rows') : BodyOf(rows')[m] = rows'[Node(m)].body
<1>1. \A a \in DOMAIN rows : a = <<a[1], a[2]>>
  BY Zenon DEF TypeInv
<1>2. \A m : m \in NodesOf(rows) <=> Node(m) \in DOMAIN rows /\ Present(rows, Node(m))
  BY <1>1, InNodes, Zenon
<1>3. \A m : m \in NodesOf(rows') <=> Node(m) \in DOMAIN rows' /\ Present(rows', Node(m))
  BY <1>1, InNodes, Zenon
<1>4. ASSUME NEW m, m # n, Node(m) \in DOMAIN rows PROVE rows'[Node(m)] = rows[Node(m)]
  <2>1. Node(m)[1] = "workspace_node" /\ Node(m) # Node(n)
    BY <1>4, Zenon DEF Node
  <2> QED
    BY <1>4, <2>1, Zenon
<1>5. ASSUME NEW m, m # n PROVE m \in NodesOf(rows) <=> m \in NodesOf(rows')
  BY <1>2, <1>3, <1>4, <1>5, Zenon DEF Present
<1>6. /\ \A m \in NodesOf(rows) : BodyOf(rows)[m] = rows[Node(m)].body
      /\ \A m \in NodesOf(rows') : BodyOf(rows')[m] = rows'[Node(m)].body
  BY Zenon DEF BodyOf
<1>7. ASSUME NEW m, m # n, m \in NodesOf(rows) PROVE BodyOf(rows')[m] = BodyOf(rows)[m]
  <2>1. m \in NodesOf(rows') /\ Node(m) \in DOMAIN rows
    BY <1>2, <1>5, <1>7, Zenon
  <2> QED
    BY <1>4, <1>6, <1>7, <2>1, Zenon
<1> QED
  BY <1>2, <1>3, <1>5, <1>6, <1>7, Zenon

LEMMA OtherRows ==
    ASSUME TypeInv, TreeInv, DOMAIN rows' = DOMAIN rows,
           \A a \in DOMAIN rows : a[1] = "workspace_node" => rows'[a] = rows[a]
    PROVE  TreeInv'
<1>1. NodesOf(rows') = NodesOf(rows)
  BY Zenon DEF NodesOf, Present
<1>2. \A a \in DOMAIN rows : a = <<a[1], a[2]>>
  BY Zenon DEF TypeInv
<1>3. ASSUME NEW m \in NodesOf(rows) PROVE BodyOf(rows')[m] = BodyOf(rows)[m]
  <2>1. Node(m) \in DOMAIN rows
    BY <1>2, InNodes, Zenon
  <2>2. Node(m)[1] = "workspace_node"
    BY Zenon DEF Node
  <2> QED
    BY <1>1, <2>1, <2>2, Zenon DEF BodyOf
<1> QED
  BY <1>1, <1>3, TreeSame DEF TreeInv

\* decide on the four kinds of a workspace command.
LEMMA DecidedWorkspace ==
    ASSUME NEW c, NEW v, decide(c, v),
           c.payload.kind \in {"create_workspace_node", "move_workspace_node", "close_workspace_node"}
    PROVE  DecideWorkspace(c, v)
<1>1. c.payload.kind \notin Inserts \ {"create_workspace_node", "ingest_record"}
  BY InsertsAre, Zenon DEF InsertKinds
<1> QED
  BY <1>1, Zenon DEF decide, CasKinds, TakeKinds, TransitionKinds, DecideWorkflow, DecidePtyLedger,
     DecidePtyControl, DecideTemplate, DecideCheckpoint

LEMMA NodeRoute ==
    ASSUME NEW c, c.payload.kind \in KindsOf("workspace_node"), c.payload.kind \in Kinds,
           route_of(c)[1] = "workspace_node"
    PROVE  route_of(c) = Node(c.payload.id)
<1>1. c.payload.kind \notin {"activate_kernel", "ingest_record", "request_pty_session_start"}
  BY WorkspaceTable, Zenon
<1>2. route_of(c) = <<aggregate_type(c.payload.kind), c.payload.id>>
  BY <1>1, Zenon DEF route_of
<1> QED
  BY <1>2 DEF Node

\* A parent the schema finds is a node of the tree.
LEMMA LegalParent ==
    ASSUME TypeInv, NEW c \in Menus[menu], NEW x, NEW q, Node(q) \in c.payload.refs,
           assert_legal_parent(x, q)
    PROVE  q \in NodesOf(rows) /\ Fits(x, BodyOf(rows)[q].node)
<1>1. AggregatesOf[menu] =
        {KernelAggregate} \cup {route_of(d) : d \in Menus[menu]}
            \cup (UNION {d.payload.refs : d \in Menus[menu]})
            \cup {PageId(class_of(d.payload), route_of(d)) : d \in Menus[menu]}
  BY Zenon DEF TypeInv, AggregatesOf
<1>2. Node(q) \in DOMAIN rows
  BY <1>1, Zenon DEF TypeInv
<1>3. \A a \in DOMAIN rows : a = <<a[1], a[2]>>
  BY Zenon DEF TypeInv
<1>4. q \in NodesOf(rows)
  BY <1>2, <1>3, InNodes, Zenon DEF assert_legal_parent
<1>5. BodyOf(rows)[q] = rows[Node(q)].body
  BY <1>4, Zenon DEF BodyOf
<1> QED
  BY <1>4, <1>5, Zenon DEF assert_legal_parent, Fits

LEMMA LandTree ==
    ASSUME TypeInv, TreeInv, NEW c \in Menus[menu], NEW v \in Nat, Lands(c, v),
           route_of(c)[1] = "workspace_node"
    PROVE  TreeInv'
<1> PICK k : k = c.payload.kind
  BY Zenon
<1> PICK n : n = c.payload.id
  BY Zenon
<1> DEFINE N == NodesOf(rows)
           B == BodyOf(rows)
           N2 == NodesOf(rows')
           B2 == BodyOf(rows')
<1>1. /\ DOMAIN rows' = DOMAIN rows /\ Written(c, v) /\ k \in Kinds /\ WellFormed(c)
      /\ \A b \in DOMAIN rows : b # route_of(c) => rows'[b] = rows[b]
      /\ route_of(c) \in DOMAIN rows
  BY Land, RouteInRows, Zenon DEF Lands, TypeInv
<1>2. /\ "workspace_node" \notin Rowless /\ "workspace_node" # "orchestrator_checkpoint"
  BY Zenon DEF Rowless
<1>3. k \in KindsOf("workspace_node")
  BY <1>1, <1>2, Zenon DEF Written
<1>4. route_of(c) = Node(n)
  BY <1>1, <1>3, NodeRoute, Zenon
<1> PICK a : a = Node(n)
  BY Zenon
<1>5. /\ n \in N <=> Present(rows, a)
      /\ n \in N2 <=> Present(rows', a)
      /\ \A m : m # n => (m \in N <=> m \in N2)
      /\ \A m : m # n /\ m \in N => B2[m] = B[m]
      /\ \A m \in N : B[m] = rows[Node(m)].body
      /\ \A m \in N2 : B2[m] = rows'[Node(m)].body
  BY <1>1, <1>4, NodesStep, SMTT(30)
<1>6. Tree(N, B)
  BY Zenon DEF TreeInv
<1>7. k \in {"create_workspace_node", "move_workspace_node", "rebind_workspace_pane", "close_workspace_node"}
  BY <1>3, WorkspaceTable, Zenon
<1> HIDE DEF N, B, N2, B2
<1>8. CASE k = "create_workspace_node"
  <2>1. k \in InsertKinds
    BY <1>8, Zenon DEF InsertKinds
  <2>2. /\ ~Present(rows, a)
        /\ rows'[a] = [version |-> RowVersion(a[1], v + 1), state |-> Tables[a[1]].initial,
                       key |-> c.key, body |-> c.payload.arg]
    BY <1>1, <1>2, <1>4, <2>1, Zenon DEF Written
  <2>3. a[1] = "workspace_node" /\ rows'[a].state = "placed" /\ rows'[a].body = c.payload.arg
    <3>1. a[1] = "workspace_node"
      BY Zenon DEF Node
    <3> QED
      BY <2>2, <3>1, WorkspaceTable, SMTT(30)
  <2>4. n \notin N /\ n \in N2
    BY <1>5, <2>2, <2>3, Zenon DEF Present
  <2>5. N2 = N \cup {n} /\ (\A m \in N : B2[m] = B[m]) /\ B2[n] = c.payload.arg
    BY <1>5, <2>3, <2>4, Zenon
  <2>6. /\ NodeBody(c.payload.arg) /\ n # NoParent
        /\ c.payload.arg.parent # NoParent => Node(c.payload.arg.parent) \in c.payload.refs
    BY <1>1, <1>8, Zenon DEF WellFormed, NodeBody
  <2>7. DecideWorkspace(c, v)
    BY <1>8, DecidedWorkspace, Zenon DEF Lands
  <2>8. IF c.payload.arg.node = "workspace" THEN c.payload.arg.parent = NoParent
        ELSE /\ c.payload.arg.parent \notin {NoParent, n}
             /\ assert_legal_parent(c.payload.arg.node, c.payload.arg.parent)
    BY <1>8, <2>7, Zenon DEF DecideWorkspace
  <2>9. Sits(N, B, c.payload.arg)
    BY <2>6, <2>8, LegalParent, Zenon DEF Sits, N, B
  <2>10. Tree(N2, B2)
    BY <1>6, <2>4, <2>5, <2>6, <2>9, TreeCreate, SMTT(30)
  <2> QED
    BY <2>10, Zenon DEF TreeInv, N2, B2
<1>9. CASE k = "move_workspace_node"
  <2> PICK q : q = c.payload.arg.parent
    BY Zenon
  <2>1. k \notin InsertKinds /\ k \notin Removes
    BY <1>9, RemovesAre, Zenon DEF InsertKinds
  <2>2. /\ Present(rows, a)
        /\ rows'[a] = [version |-> v + 1, state |-> rows[a].state, key |-> rows[a].key,
                       body |-> [rows[a].body EXCEPT !.parent = q]]
    BY <1>1, <1>2, <1>4, <1>9, <2>1, Zenon DEF Written
  <2>3. /\ Present(rows', a) /\ rows'[a].body = [rows[a].body EXCEPT !.parent = q]
    BY <2>2, SMTT(30) DEF Present
  <2>4. n \in N /\ N2 = N /\ B[n] = rows[a].body /\ B2[n] = [B[n] EXCEPT !.parent = q]
    <3>1. n \in N /\ n \in N2
      BY <1>5, <2>2, <2>3, Zenon
    <3>2. N2 = N
      <4>1. \A m : m \in N2 <=> m \in N
        BY <1>5, <3>1, Zenon
      <4> QED
        BY <4>1, Zenon
    <3>3. B[n] = rows[a].body /\ B2[n] = rows'[a].body
      BY <1>5, <3>1, Zenon
    <3> QED
      BY <2>3, <3>1, <3>2, <3>3, Zenon
  <2>5. NodeBody(B[n])
    BY <1>6, <2>4, Zenon DEF Tree
  <2>6. NodeBody(B2[n]) /\ B2[n].node = B[n].node /\ B2[n].parent = q
    BY <2>4, <2>5, Zenon DEF NodeBody
  <2>7. DecideMove(c, v)
    BY <1>9, DecidedWorkspace, Zenon DEF Lands, DecideWorkspace
  <2>8. assert_legal_parent(rows[a].body.node, q) /\ n \notin Ancestors(q)
    BY <1>4, <2>7, Zenon DEF DecideMove, Row
  <2>9. Node(q) \in c.payload.refs
    BY <1>1, <1>9, Zenon DEF WellFormed
  <2>10. q \in N /\ Fits(B[n].node, B[q].node)
    BY <2>4, <2>8, <2>9, LegalParent, Zenon DEF N, B
  <2>11. N = Nodes
    BY Zenon DEF N, NodesOf, Nodes
  <2>12. PICK C : /\ C \in SUBSET (Nodes \cup {q, NoParent}) /\ q \in C /\ UpClosed(C)
                  /\ n \notin C
    BY <2>4, <2>8, <2>11, Zenon DEF Ancestors
  <2>13. \A m \in C \cap N : B[m].parent \in C
    BY <1>5, <2>11, <2>12, Zenon DEF UpClosed
  <2>14. \A m \in N : m # n => B2[m] = B[m]
    BY <1>5, Zenon
  <2>15. Tree(N, B2)
    <3>1. /\ B2[n].parent \in N /\ Fits(B[n].node, B[B2[n].parent].node)
          /\ B2[n].parent \in C /\ n \notin C
      BY <2>6, <2>10, <2>12, Zenon
    <3>2. Moves(N, B, B2, n, C)
      BY <2>4, <2>6, <2>13, <2>14, <3>1, Zenon DEF Moves
    <3> QED
      BY <1>6, <3>2, TreeMove, Zenon
  <2> QED
    BY <2>4, <2>15, Zenon DEF TreeInv, N2, B2
<1>10. CASE k = "rebind_workspace_pane"
  <2>1. k \notin InsertKinds /\ k \notin Removes /\ k # "move_workspace_node"
    BY <1>10, RemovesAre, Zenon DEF InsertKinds
  <2>2. /\ Present(rows, a)
        /\ rows'[a] = [version |-> RowVersion(a[1], v + 1),
                       state |-> StateAfter(a[1], k, c.payload.to, rows[a].state),
                       key |-> rows[a].key, body |-> rows[a].body]
    BY <1>1, <1>2, <1>4, <2>1, Zenon DEF Written
  <2>3. k \notin Tables[a[1]].move /\ \A p \in Tables[a[1]].stamp : p[1] # k
    BY WorkspaceTable, Zenon DEF Node
  <2>4. rows'[a].state = rows[a].state /\ rows'[a].body = rows[a].body
    BY <2>2, <2>3, Unstamped, SMTT(30)
  <2>5. n \in N /\ N2 = N /\ B[n] = rows[a].body /\ B2[n] = B[n]
    <3>1. n \in N /\ n \in N2
      BY <1>5, <2>2, <2>4, Zenon DEF Present
    <3>2. N2 = N
      <4>1. \A m : m \in N2 <=> m \in N
        BY <1>5, <3>1, Zenon
      <4> QED
        BY <4>1, Zenon
    <3>3. B[n] = rows[a].body /\ B2[n] = rows'[a].body
      BY <1>5, <3>1, Zenon
    <3> QED
      BY <2>4, <3>1, <3>2, <3>3, Zenon
  <2>6. Tree(N, B2)
    BY <1>5, <1>6, <2>5, TreeSame, SMTT(30)
  <2> QED
    BY <2>5, <2>6, Zenon DEF TreeInv, N2, B2
<1>11. CASE k = "close_workspace_node"
  <2>1. k \notin InsertKinds /\ k \in Removes
    BY <1>11, RemovesAre, Zenon DEF InsertKinds
  <2>2. rows'[a] = NoRow /\ Unreferenced(rows, a)
    BY <1>1, <1>2, <1>4, <2>1, Zenon DEF Written
  <2>3. n \notin N2
    BY <1>5, <2>2, SMTT(30) DEF NoRow, Unkeyed, Present
  <2>4. N2 = N \ {n} /\ \A m \in N2 : B2[m] = B[m]
    BY <1>5, <2>3, Zenon
  <2>5. \A m \in N : B[m].parent # n
    <3> SUFFICES ASSUME NEW m \in N PROVE rows[Node(m)].body.parent # n
      BY <1>5, Zenon
    <3>1. Node(m) \in DOMAIN rows /\ Present(rows, Node(m))
      BY InNodes, Zenon DEF N, TypeInv
    <3>2. Node(m)[1] = "workspace_node" /\ a[2] = n
      BY Zenon DEF Node
    <3> QED
      BY <2>2, <3>1, <3>2, Zenon DEF Unreferenced
  <2>6. Tree(N2, B2)
    <3>1. \A m \in N2 : B2[m] = B[m] /\ B[m].parent # n
      BY <2>4, <2>5, Zenon
    <3>2. Closes(N, B, N2, B2, n)
      BY <2>4, <3>1, Zenon DEF Closes
    <3> QED
      BY <1>6, <3>2, TreeClose, Zenon
  <2> QED
    BY <2>6, Zenon DEF TreeInv, N2, B2
<1> QED
  BY <1>7, <1>8, <1>9, <1>10, <1>11, Zenon

LEMMA TreeStep ==
    ASSUME LogInv, TreeInv, [Next /\ UNCHANGED menu]_<<vars, menu>>
    PROVE  TreeInv'
<1>1. TypeInv
  BY Zenon DEF LogInv
<1>2. CASE Landed
  <2>1. PICK c \in Menus[menu], v \in Nat : Lands(c, v)
    BY <1>2, Zenon DEF Landed
  <2>2. CASE route_of(c)[1] = "workspace_node"
    BY <1>1, <2>1, <2>2, LandTree, Zenon
  <2>3. CASE route_of(c)[1] # "workspace_node"
    <3>1. /\ DOMAIN rows' = DOMAIN rows
          /\ \A b \in DOMAIN rows : b # route_of(c) => rows'[b] = rows[b]
      BY <1>1, <2>1, Land, Zenon DEF Lands, TypeInv
    <3> QED
      BY <1>1, <2>3, <3>1, OtherRows, Zenon
  <2> QED
    BY <2>2, <2>3, Zenon
<1>3. CASE Paged
  <2>1. PICK c \in Menus[menu] : paged(c)
    BY <1>3, Zenon DEF Paged
  <2>2. /\ DOMAIN rows' = DOMAIN rows
        /\ \A a \in DOMAIN rows : a[1] # "attention_item" => rows'[a] = rows[a]
    BY <1>1, <2>1, PagedRows, Zenon DEF TypeInv
  <2> QED
    BY <1>1, <2>2, OtherRows, Zenon
<1>4. CASE Opened \/ Refused \/ Kept
  <2>1. rows' = rows
    BY <1>4, Zenon DEF Opened, ensure_genesis, Refused, Kept
  <2> QED
    BY <1>1, <2>1, OtherRows, Zenon
<1> QED
  BY <1>1, <1>2, <1>3, <1>4, StepCases, Zenon

\* In such a tree every node has its legal parent and reaches the root.
LEMMA TreeIsForest ==
    ASSUME TypeInv, TreeInv
    PROVE  WorkspaceIsForest
<1> DEFINE N == NodesOf(rows)
           B == BodyOf(rows)
<1>1. Tree(N, B) /\ N = Nodes
  BY Zenon DEF TreeInv, NodesOf, Nodes
<1>2. \A m : m \in N <=> Node(m) \in DOMAIN rows /\ Present(rows, Node(m))
  BY InNodes, Zenon DEF TypeInv
<1>3. \A m \in N : B[m] = rows[Node(m)].body
  BY Zenon DEF BodyOf
<1> SUFFICES ASSUME NEW a \in DOMAIN rows, a[1] = "workspace_node", Present(rows, a)
             PROVE  /\ IF rows[a].body.node = "workspace" THEN rows[a].body.parent = NoParent
                       ELSE assert_legal_parent(rows[a].body.node, rows[a].body.parent)
                    /\ NoParent \in Ancestors(a[2])
  BY Zenon DEF WorkspaceIsForest, Aggregates
<1> PICK m : m = a[2]
  BY Zenon
<1>4. a = Node(m)
  BY Zenon DEF TypeInv, Node
<1>5. m \in N /\ B[m] = rows[a].body
  BY <1>2, <1>3, <1>4, Zenon
<1> HIDE DEF N, B
<1>6. Sits(N, B, B[m])
  BY <1>1, <1>5, Zenon DEF Tree
<1>7. IF rows[a].body.node = "workspace" THEN rows[a].body.parent = NoParent
      ELSE assert_legal_parent(rows[a].body.node, rows[a].body.parent)
  <2>1. CASE B[m].node = "workspace" /\ B[m].parent = NoParent
    BY <1>5, <2>1, Zenon
  <2>2. CASE B[m].parent \in N /\ Fits(B[m].node, B[B[m].parent].node)
    <3> PICK q : q = B[m].parent
      BY Zenon
    <3>1. Present(rows, Node(q)) /\ B[q] = rows[Node(q)].body
      BY <1>2, <1>3, <2>2, Zenon
    <3> QED
      BY <1>5, <2>2, <3>1, Zenon DEF Fits, assert_legal_parent
  <2> QED
    BY <1>6, <2>1, <2>2, Zenon DEF Sits
<1>8. ASSUME NEW S \in SUBSET (Nodes \cup {m, NoParent}), m \in S, UpClosed(S)
      PROVE  NoParent \in S
  <2> SUFFICES ASSUME NoParent \notin S PROVE FALSE
    BY Zenon
  <2>1. S \in SUBSET N /\ S # {}
    BY <1>1, <1>5, <1>8, Zenon
  <2>2. PICK x \in S : B[x].parent \notin S
    BY <1>1, <2>1, Zenon DEF Tree
  <2>3. x \in S \cap Nodes /\ B[x].parent = rows[Node(x)].body.parent
    BY <1>1, <1>3, <2>1, Zenon
  <2> QED
    BY <1>8, <2>2, <2>3, Zenon DEF UpClosed
<1>9. NoParent \in Ancestors(m)
  BY <1>8, Zenon DEF Ancestors
<1> QED
  BY <1>7, <1>9, Zenon
-----------------------------------------------------------------------------
RowsInv == LogInv /\ DeliveryInv /\ VersionInv /\ CursorInv /\ TreeInv

LEMMA InitRows == Init => RowsInv
<1> SUFFICES ASSUME Init PROVE RowsInv
  BY Zenon
<1>1. LogInv /\ DeliveryInv /\ TypeInv /\ Events = {} /\ DOMAIN log = {} /\ log = <<>>
  BY InitAnswers DEF AnswersInv, LogInv, Init, Events
<1>2. \A a \in DOMAIN rows : ~Present(rows, a) /\ rows[a].version = 0
  BY Zenon DEF Init, NoRow, Unkeyed, Present
<1>3. \A a : current_aggregate_version(a) = 0
  BY <1>1, CountFacts, Zenon DEF LogInv
<1>4. VersionInv
  BY <1>2, <1>3, Zenon DEF VersionInv
<1>5. CursorInv
  BY <1>1, Zenon DEF CursorInv
<1>6. NodesOf(rows) = {}
  BY <1>2, Zenon DEF NodesOf
<1>7. TreeInv
  BY <1>6, Zenon DEF TreeInv, Tree
<1> QED
  BY <1>1, <1>4, <1>5, <1>7, Zenon DEF RowsInv

LEMMA RowsHold ==
    ASSUME RowsInv
    PROVE  RowsAgree
<1>1. TypeInv /\ Numbered
  BY Zenon DEF RowsInv, LogInv
<1>2. \A a \in Aggregates : a[1] \in DOMAIN Tables /\ Tables[a[1]].versioned =>
        \/ rows[a].version = current_aggregate_version(a)
        \/ a[1] = "workspace_node" /\ ~Present(rows, a)
  <2> SUFFICES ASSUME NEW a \in DOMAIN rows, a[1] \in TableNames, Tables[a[1]].versioned
               PROVE  \/ rows[a].version = current_aggregate_version(a)
                      \/ a[1] = "workspace_node" /\ ~Present(rows, a)
    BY TablesDomain, Zenon DEF Aggregates
  <2> PICK n : n = current_aggregate_version(a)
    BY Zenon
  <2>1. IF Present(rows, a) THEN rows[a].version = n
        ELSE rows[a].version = 0 /\ (a[1] # "workspace_node" => n = 0)
    BY Zenon DEF RowsInv, VersionInv
  <2> QED
    BY <2>1, Zenon
<1>3. \A e, f \in Events : e.aggregate = f.aggregate => e.project = f.project
  <2>1. \A i, j \in DOMAIN log : log[i].aggregate = log[j].aggregate => log[i].project = log[j].project
    BY <1>1, Zenon DEF Numbered
  <2> QED
    BY <2>1, ZenonT(30) DEF Events
<1>4. \A e \in Events : e.aggregate[1] = "orchestrator_checkpoint" =>
        e.payload.arg.seq <= rows[e.aggregate].body.seq
  BY Zenon DEF RowsInv, CursorInv
<1>5. RowsTrackLog
  BY <1>2, <1>3, <1>4, Zenon DEF RowsTrackLog
<1>6. DeliveriesMatchLog /\ WorkspaceIsForest
  BY <1>1, DeliveriesMatch, TreeIsForest, Zenon DEF RowsInv
<1> QED
  BY <1>5, <1>6, Zenon DEF RowsAgree

\* What the log implies is in the tables, whichever commands land in whatever order:
\* a row has its aggregate's highest version, cursors hold the newest checkpoint, each
\* PTY event has its one delivery row, and the workspace stays a forest under creates,
\* moves and closes (apply_event, checkpoint_seq, WORKSPACE_NODE_ANCESTOR).
THEOREM SubmitRows == Spec => []RowsAgree
<1>1. Init => RowsInv
  BY InitRows, Zenon
<1>2. RowsInv /\ [Next /\ UNCHANGED menu]_<<vars, menu>> => RowsInv'
  BY LogStep, DeliveryStep, VersionStep, CursorStep, TreeStep, Zenon DEF RowsInv
<1>3. RowsInv => RowsAgree
  BY RowsHold, Zenon
<1> QED
  BY <1>1, <1>2, <1>3, PTL DEF Spec

-----------------------------------------------------------------------------
(***************************************************************************)
(* The port.                                                               *)
(***************************************************************************)
Record(s, i) ==
    [seq |-> i, fence |-> 0, env |-> [aggregate |-> s[i].aggregate, version |-> s[i].version]]
Records(s) == {Record(s, i) : i \in DOMAIN s}

\* An event one past its aggregate's highest version is one append of the port.
LEMMA AppendIsAppend ==
    ASSUME log \in Seq(Events), Numbered, NEW e, log' = Append(log, e),
           e.version = current_aggregate_version(e.aggregate) + 1
    PROVE  Port!Append
<1> PICK n \in Nat : n = current_aggregate_version(e.aggregate)
  BY CountFacts, Zenon
<1> PICK N \in Nat : N = Len(log)
  OBVIOUS
<1> PICK x : x = Record(log', N + 1)
  BY Zenon
<1>1. /\ DOMAIN log = 1 .. N /\ DOMAIN log' = 1 .. N + 1
      /\ log'[N + 1] = e /\ \A i \in 1 .. N : log'[i] = log[i]
  BY AppendFacts, Zenon
<1>2. x.seq = N + 1 /\ x.fence = 0 /\ x.env.aggregate = e.aggregate /\ x.env.version = n + 1
  BY <1>1, Zenon DEF Record
<1>3. \A i \in 1 .. N : Record(log', i) = Record(log, i)
  BY <1>1, Zenon DEF Record
<1>4. \A f \in Records(log) : \E i \in 1 .. N : f = Record(log, i) /\ f.seq = i
  BY <1>1 DEF Records, Record
<1>5. Records(log') = Records(log) \cup {x}
  BY <1>1, <1>3 DEF Records
<1>6. \A f \in Records(log) : f.seq < x.seq
  BY <1>2, <1>4
<1>7. x \notin Records(log)
  BY <1>2, <1>4
<1>8. Records(log') \ Records(log) = {x}
  BY <1>5, <1>7, Zenon
<1>9. ASSUME NEW f \in Records(log), f.env.aggregate = e.aggregate PROVE f.env.version <= n
  <2>1. PICK i \in 1 .. N : f = Record(log, i)
    BY <1>4, Zenon
  <2>2. f.env.aggregate = log[i].aggregate /\ f.env.version = log[i].version
    BY <2>1, Zenon DEF Record
  <2>3. log[i].version \in 1 .. current_aggregate_version(log[i].aggregate)
    BY <1>1, Zenon DEF Numbered
  <2> QED
    BY <1>9, <2>2, <2>3
<1>10. n = 0 \/ \E f \in Records(log) : f.env.aggregate = e.aggregate /\ f.env.version = n
  <2> SUFFICES ASSUME n # 0 PROVE \E f \in Records(log) : f.env.aggregate = e.aggregate /\ f.env.version = n
    BY Zenon
  <2>1. PICK i \in DOMAIN log : log[i].aggregate = e.aggregate
    BY CountFacts, Zenon
  <2>2. PICK j \in DOMAIN log : /\ log[j].aggregate = log[i].aggregate
                                /\ log[j].version = current_aggregate_version(log[i].aggregate)
    BY Zenon DEF Numbered
  <2>3. Record(log, j).env.aggregate = e.aggregate /\ Record(log, j).env.version = n
    BY <2>1, <2>2, Zenon DEF Record
  <2>4. Record(log, j) \in Records(log)
    BY Zenon DEF Records
  <2> QED
    BY <2>3, <2>4, Zenon
<1>11. x.env.version - 1 = n
  BY <1>2
<1>12. Port!Top(x.env.aggregate, x.env.version - 1)
  <2>1. /\ \A f \in Records(log) : f.env.aggregate = x.env.aggregate => f.env.version <= x.env.version - 1
        /\ \/ x.env.version - 1 = 0
           \/ \E f \in Records(log) : /\ f.env.aggregate = x.env.aggregate
                                      /\ f.env.version = x.env.version - 1
    BY <1>2, <1>9, <1>10, <1>11, Zenon
  <2> QED
    BY <2>1, Zenon DEF Port!Top, Records, Record
<1>13. /\ Records(log) \subseteq Records(log')
       /\ \A y \in Records(log') \ Records(log) :
            /\ \A f \in Records(log) : f.seq < y.seq
            /\ 0 # 0 => y.fence = 0
            /\ \A f \in Records(log') \ Records(log) :
                /\ f.env.aggregate = y.env.aggregate
                /\ f.seq - y.seq = f.env.version - y.env.version
                /\ f.seq = y.seq => f = y
  <2>1. x.seq - x.seq = x.env.version - x.env.version
    BY <1>2
  <2> QED
    BY <1>5, <1>6, <1>8, <2>1, Zenon
<1>14. \E y \in Records(log') \ Records(log) : Port!Top(y.env.aggregate, y.env.version - 1)
  BY <1>8, <1>12, Zenon
<1> QED
  BY <1>13, <1>14, Zenon DEF Port!Append, Records, Record

\* What lands is a behaviour of the event-store port, whatever is submitted:
\* contiguous versions per aggregate in commit order (append under the writer lock).
THEOREM SubmitImplementsPort == Spec => ImplementsPort
<1>1. Init => LogInv /\ Port!LogInit
  BY InitLog DEF JustInv, Init, Port!LogInit
<1>2. LogInv /\ [Next /\ UNCHANGED menu]_<<vars, menu>> => LogInv' /\ [Port!LogNext]_(Port!logVars)
  <2> SUFFICES ASSUME LogInv, [Next /\ UNCHANGED menu]_<<vars, menu>>
               PROVE  LogInv' /\ [Port!LogNext]_(Port!logVars)
    BY Zenon
  <2>1. LogInv' /\ TypeInv /\ Opening /\ Numbered
    BY LogStep, Zenon DEF LogInv
  <2>2. CASE Landed
    <3>1. PICK c \in Menus[menu], v \in Nat : Lands(c, v) /\ menu' = menu
      BY <2>2, Zenon DEF Landed
    <3> PICK e : e = build_event(c, v)
      BY Zenon
    <3>2. log' = Append(log, e) /\ log \in Seq(Events)
      BY <3>1, Zenon DEF Lands, LogInv, TypeInv
    <3>3. e.version = v + 1 /\ e.aggregate = route_of(c) /\ current_aggregate_version(route_of(c)) = v
      BY <3>1, Zenon DEF Lands, build_event
    <3>4. e.version = current_aggregate_version(e.aggregate) + 1
      BY <3>3, Zenon
    <3> QED
      BY <2>1, <3>2, <3>4, AppendIsAppend, Zenon DEF Port!LogNext
  <2>3. CASE Opened
    <3>1. log' = Append(log, GenesisEvent) /\ log \in Seq(Events) /\ DOMAIN log = {}
      BY <2>1, <2>3, GenesisLog, Zenon DEF Opened
    <3>2. current_aggregate_version(GenesisEvent.aggregate) = 0 /\ GenesisEvent.version = 1
      BY <2>1, <3>1, CountFacts, Zenon DEF GenesisEvent
    <3> QED
      BY <2>1, <3>1, <3>2, AppendIsAppend DEF Port!LogNext
  <2>4. CASE Paged \/ Refused \/ Kept
    <3>1. log' = log
      BY <2>4, Zenon DEF Paged, paged, Refused, Kept
    <3> QED
      BY <2>1, <3>1, Zenon DEF Port!logVars
  <2> QED
    BY <2>1, <2>2, <2>3, <2>4, StepCases, Zenon
<1> QED
  BY <1>1, <1>2, PTL DEF Spec, ImplementsPort, Port!LogSpec
=============================================================================

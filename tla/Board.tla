------------------------------- MODULE Board -------------------------------
(***************************************************************************)
(* The Board lens (crates/gwk-tui/src/board.rs): what the board paints is  *)
(* a pure function of the projection pages the caller assembled.  A page   *)
(* is a sequence of records, possibly with repeated ids, possibly cut      *)
(* short of the last page, possibly naming parents that are not on it.     *)
(*                                                                         *)
(* Ids, instants and versions are positive integers; 0 stands for an       *)
(* absent optional id or instant and -1 for an absent optional amount.     *)
(* Wording, colour and glyphs are left out: a row is what it points at,    *)
(* how deep it sits, whether it is pinned, and the figure it states.       *)
(***************************************************************************)
EXTENDS Integers, FiniteSets, SequencesExt

CONSTANT SUMMARY_ROWS     \* rows of a summary section (5 in the code)

NoTarget == <<"none", 0>>

Row(target, depth) ==
  [target |-> target, depth |-> depth, pinned |-> FALSE, note |-> "", count |-> 0]
Plain == Row(NoTarget, 0)
Diagnostic(note, count) == [Plain EXCEPT !.pinned = TRUE, !.note = note, !.count = count]
Figure(note, count) == [Plain EXCEPT !.note = note, !.count = count]

Board(view, cursor, live) ==
  [view |-> view, tasks |-> <<>>, runs |-> <<>>, attempts |-> <<>>, nodes |-> <<>>,
   messages |-> <<>>, events |-> <<>>, attention |-> <<>>, sessions |-> <<>>,
   worktrees |-> <<>>, leases |-> <<>>, costs |-> <<>>, ingested |-> <<>>,
   receipts |-> <<>>, replay |-> <<>>, complete |-> TRUE, watermark |-> 0,
   tail |-> [cursor |-> cursor, live |-> live, dropped |-> 0]]

-----------------------------------------------------------------------------
(* Orders and de-duplication.                                              *)

Lex(a, b) == \E i \in DOMAIN a : a[i] < b[i] /\ \A j \in 1 .. (i - 1) : a[j] = b[j]
SortBy(s, Key(_)) == SortSeq(s, LAMBDA a, b : Lex(Key(a), Key(b)))
by_id(s) == SortBy(s, LAMBDA x : <<x.id>>)
Newest(s) == SortBy(s, LAMBDA x : <<-x.at, x.id>>)
Arrival(s) == SortBy(s, LAMBDA x : <<x.at, x.id>>)
Truncate(s, n) == SubSeq(s, 1, IF Len(s) < n THEN Len(s) ELSE n)
MapSeq(s, Op(_)) == [i \in DOMAIN s |-> Op(s[i])]
Count(s, Test(_)) == Cardinality({i \in DOMAIN s : Test(s[i])})

\* Would keep every record the pages repeat.
EveryRecord(s) == s

\* The first record of each id, in page order.
unique_by_id(s) ==
  LET first == SelectSeq([i \in DOMAIN s |-> i],
                         LAMBDA i : \A j \in 1 .. (i - 1) : s[j].id # s[i].id)
  IN  MapSeq(first, LAMBDA i : s[i])
Duplicates(s) == Len(s) - Len(unique_by_id(s))

duplicate_finding(s, what) ==
  IF Duplicates(s) > 0 THEN <<Diagnostic(what, Duplicates(s))>> ELSE <<>>
Unknown(test, what, count) == IF test THEN <<Diagnostic(what, count)>> ELSE <<>>

pinned_block(findings, unknowns) ==
  LET block(notes, title) == IF notes = <<>> THEN <<>>
                             ELSE <<Diagnostic(title, Len(notes))>> \o notes
  IN  block(findings, "invalid page") \o block(unknowns, "unknown")

Short(b, subject) == Unknown(~b.complete, subject, 0)

-----------------------------------------------------------------------------
(* Trees: the spawn tree of an attempt and the reply threads of a flow are *)
(* walked with the same explicit stack; an id already placed is skipped.   *)

RECURSIVE Walk(_, _, _, _)
Walk(stack, kids, kind, acc) ==
  IF stack = <<>> THEN acc
  ELSE LET top == Head(stack)
           below == MapSeq(kids[top.id], LAMBDA k : [id |-> k, depth |-> top.depth + 1])
       IN IF top.id \in acc.placed
          THEN Walk(Tail(stack), kids, kind, acc)
          ELSE Walk(below \o Tail(stack), kids, kind,
                    [placed |-> acc.placed \cup {top.id},
                     rows |-> Append(acc.rows, Row(<<kind, top.id>>, top.depth))])

spawn_rows(roots, kids, depth, acc) ==
  Walk(MapSeq(roots, LAMBDA r : [id |-> r.id, depth |-> depth]), kids, "node", acc)

Ids(s) == {s[i].id : i \in DOMAIN s}

\* A spawn hangs under its parent only inside the same attempt.
Anchored(nodes, n) ==
  \E i \in DOMAIN nodes : n.parent # 0 /\ nodes[i].id = n.parent /\ nodes[i].attempt = n.attempt
SpawnKids(nodes) ==
  [id \in Ids(nodes) |->
     LET self == nodes[CHOOSE i \in DOMAIN nodes : nodes[i].id = id]
     IN  MapSeq(by_id(SelectSeq(nodes, LAMBDA c : c.parent = id /\ c.attempt = self.attempt)),
                LAMBDA c : c.id)]
ConflictingAnchors(nodes) ==
  Count(nodes, LAMBDA n : n.parent \in Ids(nodes) /\ ~Anchored(nodes, n))
Roots(nodes, attempt) ==
  by_id(SelectSeq(nodes, LAMBDA n : ~Anchored(nodes, n) /\ n.attempt = attempt))

InvalidPage(findings) ==
  LET shown == SelectSeq(findings, LAMBDA f : f.count > 0)
  IN  pinned_block(shown, <<>>)

place_attempt(nodes, depth, acc, a) ==
  spawn_rows(Roots(nodes, a.id), SpawnKids(nodes), depth + 1,
             [acc EXCEPT !.rows = Append(@, Row(<<"attempt", a.id>>, depth))])

PlaceTasks(tasks, attempts, nodes, acc) ==
  FoldLeft(LAMBDA sofar, t :
             FoldLeft(LAMBDA deep, a : place_attempt(nodes, 1, deep, a),
                      [sofar EXCEPT !.rows = Append(@, Row(<<"task", t.id>>, 0))],
                      by_id(SelectSeq(attempts, LAMBDA a : a.task = t.id))),
           acc, by_id(tasks))

\* Attempts whose task, and spawn roots whose attempt, lie beyond the page.
PlaceOrphans(tasks, attempts, nodes, acc) ==
  LET lost == by_id(SelectSeq(attempts, LAMBDA a : a.task \notin Ids(tasks)))
      owners == {nodes[i].attempt : i \in DOMAIN nodes} \ Ids(attempts)
      roots == FlattenSeq(MapSeq(SetToSortSeq(owners, LAMBDA x, y : x < y),
                                 LAMBDA o : Roots(nodes, o)))
      placed == FoldLeft(LAMBDA deep, a : place_attempt(nodes, 1, deep, a),
                         [acc EXCEPT !.rows = Append(@, Plain)], lost)
  IN  IF lost = <<>> /\ roots = <<>> THEN acc
      ELSE spawn_rows(roots, SpawnKids(nodes), 1, placed)

running_count(b) == Count(unique_by_id(b.attempts), LAMBDA a : a.state = "running")

dag_rows(b) ==
  LET header == [placed |-> {}, rows |-> <<Figure("running", running_count(b))>>]
      twice == Duplicates(b.tasks) + Duplicates(b.attempts) + Duplicates(b.nodes)
      walked(tasks, attempts, nodes) ==
        PlaceOrphans(tasks, attempts, nodes, PlaceTasks(tasks, attempts, nodes, header))
      shown(nodes, walk) ==
        InvalidPage(<<Diagnostic("unplaced", Cardinality(Ids(nodes) \ walk.placed)),
                      Diagnostic("conflicting", ConflictingAnchors(nodes)),
                      Diagnostic("duplicate", twice)>>) \o walk.rows
  IN  IF b.tasks = <<>> /\ b.attempts = <<>> /\ b.nodes = <<>> THEN <<Plain>>
      ELSE shown(unique_by_id(b.nodes),
                 walked(unique_by_id(b.tasks), unique_by_id(b.attempts), unique_by_id(b.nodes)))

ReplyKids(messages) ==
  [id \in Ids(messages) |->
     MapSeq(Arrival(SelectSeq(messages, LAMBDA m : m.reply = id)), LAMBDA m : m.id)]

ThreadRoots(messages, correlation) ==
  Arrival(SelectSeq(messages, LAMBDA m : /\ m.reply \notin Ids(messages)
                                         /\ m.correlation = correlation))

\* One header and its threads per correlation id, then the threads with none.
Threads(messages) ==
  LET flows == SetToSortSeq({messages[i].correlation : i \in
                  {j \in DOMAIN messages : messages[j].reply \notin Ids(messages)}} \ {0},
                            LAMBDA x, y : x < y)
      grouped == FoldLeft(LAMBDA acc, c :
                   FoldLeft(LAMBDA deep, m :
                              Walk(<<[id |-> m.id, depth |-> 1]>>, ReplyKids(messages),
                                   "message", deep),
                            [acc EXCEPT !.rows = Append(@, Plain)], ThreadRoots(messages, c)),
                 [placed |-> {}, rows |-> <<Plain>>], flows)
  IN  FoldLeft(LAMBDA acc, m : Walk(<<[id |-> m.id, depth |-> 0]>>, ReplyKids(messages),
                                    "message", acc),
               grouped, ThreadRoots(messages, 0))

flow_rows(b) ==
  LET messages == unique_by_id(b.messages)
      walk == Threads(messages)
  IN  IF b.messages = <<>> THEN <<Plain>>
      ELSE InvalidPage(<<Diagnostic("unthreaded", Cardinality(Ids(messages) \ walk.placed)),
                         Diagnostic("duplicate", Duplicates(b.messages))>>) \o walk.rows

-----------------------------------------------------------------------------
(* The ledgers.                                                            *)

Pointing(kind, depth, s) == MapSeq(s, LAMBDA x : Row(<<kind, x.id>>, depth))
Section(rows) == IF rows = <<>> THEN <<>> ELSE <<Plain>> \o rows

workflow_run_rows(b) ==
  LET runs == Newest(unique_by_id(b.runs))
      listed(open) == Pointing("run", 1, SelectSeq(runs, LAMBDA r : (r.closed = 0) = open))
  IN  pinned_block(duplicate_finding(b.runs, "run"), Short(b, "run ledger")) \o
      IF runs = <<>> THEN <<Plain>>
      ELSE <<Figure("runs", Len(runs))>> \o Section(listed(TRUE)) \o Section(listed(FALSE))

\* The tail shows what lies after its cursor and matches its filters.
TailShows(b) ==
  SelectSeq(unique_by_id(b.events), LAMBDA e : e.seq > b.tail.cursor /\ e.matches)

event_rows(b) ==
  LET shown == SortBy(TailShows(b), LAMBDA e : <<-e.seq, e.id>>)
  IN  pinned_block(duplicate_finding(b.events, "event"),
                   Unknown(b.tail.dropped > 0, "tail buffer", b.tail.dropped)) \o
      <<Figure("events", Len(shown))>> \o
      IF shown = <<>> THEN <<Plain>> ELSE Pointing("event", 1, shown)

replay_rows(b) ==
  IF b.replay = <<>> THEN <<Plain>> ELSE <<Plain>> \o Pointing("frame", 0, b.replay)

summary_findings(b, include_cost) ==
  duplicate_finding(b.tasks, "task") \o duplicate_finding(b.attempts, "attempt") \o
  duplicate_finding(b.attention, "attention item") \o
  duplicate_finding(b.worktrees, "worktree") \o duplicate_finding(b.leases, "lease") \o
  (IF include_cost THEN duplicate_finding(b.costs, "cost entry") ELSE <<>>)

\* Open items, lowest priority number first, unranked ones last.
ranked_attention(items) ==
  SortBy(SelectSeq(unique_by_id(items), LAMBDA i : i.resolved = 0),
         LAMBDA i : <<IF i.priority = -1 THEN 1 ELSE 0, i.priority, i.id>>)

\* Kinds compare as their names do.
KindRank == [attempt |-> 1, attention |-> 2, lease |-> 3, task |-> 4, worktree |-> 5]
Facts(kind, s, At(_)) == MapSeq(s, LAMBDA x : [kind |-> kind, id |-> x.id, at |-> At(x)])

recent_activity(b) ==
  LET facts ==
        Facts("task", unique_by_id(b.tasks), LAMBDA x : x.at) \o
        Facts("attempt", unique_by_id(b.attempts), LAMBDA x : x.at) \o
        Facts("attention", unique_by_id(b.attention),
              LAMBDA x : IF x.resolved # 0 THEN x.resolved ELSE x.at) \o
        Facts("worktree", unique_by_id(b.worktrees),
              LAMBDA x : IF x.released # 0 THEN x.released ELSE x.at) \o
        Facts("lease", unique_by_id(b.leases), LAMBDA x : x.at)
  IN  Truncate(SortBy(facts, LAMBDA f : <<-f.at, KindRank[f.kind], f.id>>), SUMMARY_ROWS)

Owed(b) ==
  LET none(x) == 0
  IN  SortBy(Facts("attention", ranked_attention(b.attention), none) \o
             Facts("task", SelectSeq(unique_by_id(b.tasks),
                                     LAMBDA t : t.state = "input_required"), none) \o
             Facts("attempt", SelectSeq(unique_by_id(b.attempts),
                                        LAMBDA a : a.state = "blocked"), none) \o
             Facts("worktree", SelectSeq(unique_by_id(b.worktrees),
                                         LAMBDA w : w.released = 0 /\ (w.dirty \/ w.unpushed)),
                   none),
             LAMBDA f : <<KindRank[f.kind], f.id>>)

FactRows(facts) ==
  IF facts = <<>> THEN <<Plain>> ELSE MapSeq(facts, LAMBDA f : Row(<<f.kind, f.id>>, 1))

Held(worktrees) == SelectSeq(unique_by_id(worktrees), LAMBDA w : w.released = 0)
HeldLeases(leases) == SelectSeq(unique_by_id(leases), LAMBDA l : l.state = "held")

estate_overview(b) ==
  [tasks |-> Len(unique_by_id(b.tasks)),
   active |-> Count(unique_by_id(b.tasks),
                    LAMBDA t : t.state \in {"submitted", "working", "input_required"}),
   attempts |-> Len(unique_by_id(b.attempts)), running |-> running_count(b),
   attention |-> Len(ranked_attention(b.attention)),
   worktrees |-> Len(Held(b.worktrees)), leases |-> Len(HeldLeases(b.leases)),
   recent |-> recent_activity(b), findings |-> summary_findings(b, FALSE)]

estate_rows(b) ==
  LET shown(summary) ==
        pinned_block(summary.findings, Short(b, "snapshot")) \o
        <<Figure("running", summary.running), Figure("attention", summary.attention), Plain>> \o
        (IF summary.attention = 0 THEN <<Plain>>
         ELSE Pointing("attention", 1, <<Head(ranked_attention(b.attention))>>)) \o
        <<Plain>> \o FactRows(summary.recent)
  IN  shown(estate_overview(b))

Priced(costs) == SelectSeq(costs, LAMBDA c : c.micros # -1)
Micros(costs) == FoldLeft(LAMBDA sum, c : sum + c.micros, 0, Priced(costs))

cost_headline(costs) ==
  LET kept == unique_by_id(costs)
  IN  [entries |-> Len(kept), priced |-> Len(Priced(kept)), micros |-> Micros(kept),
       unpriced |-> Len(kept) - Len(Priced(kept)),
       estimated |-> Count(kept, LAMBDA c : c.estimate)]

activity_brief(b) ==
  [happened |-> recent_activity(b), owed_total |-> Len(Owed(b)),
   owed |-> Truncate(Owed(b), SUMMARY_ROWS), cost |-> cost_headline(b.costs),
   findings |-> summary_findings(b, TRUE)]

activity_rows(b) ==
  LET shown(brief) ==
        pinned_block(brief.findings, Short(b, "snapshot")) \o
        <<Plain>> \o FactRows(brief.happened) \o
        <<Figure("owed", brief.owed_total)>> \o FactRows(brief.owed) \o
        <<Figure("cost", brief.cost.micros)>>
  IN  shown(activity_brief(b))

agent_fleet(b) ==
  LET sessions == unique_by_id(b.sessions)
      running == SelectSeq(unique_by_id(b.attempts), LAMBDA a : a.state = "running")
      bound == {sessions[i].attempt : i \in DOMAIN sessions}
      unended == Count(sessions, LAMBDA s : s.ended = 0)
      unbound == Count(running, LAMBDA a : a.id \notin bound)
  IN  [sessions |-> sessions, worktrees |-> unique_by_id(b.worktrees),
       leases |-> unique_by_id(b.leases), running |-> Len(running), unbound |-> unbound,
       findings |-> duplicate_finding(b.sessions, "session") \o
                    duplicate_finding(b.worktrees, "worktree") \o
                    duplicate_finding(b.leases, "lease"),
       unknowns |-> Unknown(unended > 0, "liveness", unended) \o
                    Unknown(unbound > 0, "engine binding", unbound) \o Short(b, "fleet size")]

fleet_rows(b) ==
  LET listed(fleet) == Section(Pointing("session", 1, fleet.sessions)) \o
                       Section(Pointing("worktree", 1, fleet.worktrees)) \o
                       Section(Pointing("lease", 1, fleet.leases))
      shown(fleet) ==
        pinned_block(fleet.findings, fleet.unknowns) \o <<Figure("running", fleet.running)>> \o
        IF listed(fleet) = <<>> THEN <<Plain>> ELSE listed(fleet)
  IN  shown(agent_fleet(b))

Buckets(costs) == {<<costs[i].engine, costs[i].model>> : i \in DOMAIN costs}
\* Would add an engine's costs up whatever their model.
InEngine(costs, k) == SelectSeq(costs, LAMBDA c : c.engine = k[1])
InBucket(costs, k) == SelectSeq(costs, LAMBDA c : <<c.engine, c.model>> = k)

\* TokenFold: a column sums the rows that report it and says how many did.
TokenCoverage(costs, axis) ==
  LET reported == SelectSeq(costs, LAMBDA c : c.tokens[axis] # -1)
  IN  [total |-> FoldLeft(LAMBDA sum, c : sum + c.tokens[axis], 0, reported),
       entries |-> Len(reported)]

TokenAxes == <<"input", "output", "cached_input", "cache_write", "reasoning">>

cost_rollup(b) ==
  LET bucket(costs) == [entries |-> Len(costs), priced |-> Len(Priced(costs)), micros |-> Micros(costs)]
      rollup(costs, head) ==
        [headline |-> head, entries |-> Newest(costs),
         by_engine |-> [k \in Buckets(costs) |-> bucket(InBucket(costs, k))],
         tokens |-> MapSeq(TokenAxes, LAMBDA axis : TokenCoverage(costs, axis)),
         findings |-> duplicate_finding(b.costs, "cost entry"),
         unknowns |-> Unknown(head.unpriced > 0, "currency", head.unpriced) \o
                      Short(b, "the ledger")]
  IN  rollup(unique_by_id(b.costs), cost_headline(b.costs))

cost_health_rows(b) ==
  LET ingested == unique_by_id(b.ingested)
      shown(roll, health, records) ==
        pinned_block(roll.findings \o duplicate_finding(b.ingested, "ingested record"),
                     roll.unknowns \o Unknown(health = 0, "health", 0) \o
                     Unknown(records = <<>>, "session", 0)) \o
        <<Figure("cost", roll.headline.micros)>> \o
        Section(MapSeq(SetToSeq(Buckets(roll.entries)),
                       LAMBDA k : Figure("engine", roll.by_engine[k].micros))) \o
        (IF roll.entries = <<>> THEN <<>>
         ELSE Section(MapSeq(roll.tokens, LAMBDA t : Figure("tokens", t.total)))) \o
        Section(Pointing("cost", 1, roll.entries)) \o
        <<Plain, Figure("health", health), Figure("session", Len(records))>> \o
        Pointing("ingested", 2, records)
  IN  shown(cost_rollup(b), Count(ingested, LAMBDA r : r.kind = "health"),
            SelectSeq(ingested, LAMBDA r : r.kind = "session"))

audit_rows(b) ==
  LET receipts == unique_by_id(b.receipts)
      basisless == Count(receipts, LAMBDA r : ~r.basis)
      actions == SetToSeq({receipts[i].action : i \in DOMAIN receipts})
  IN  pinned_block(duplicate_finding(b.receipts, "receipt"),
                   Unknown(basisless > 0, "basis", basisless) \o Short(b, "the ledger")) \o
      IF receipts = <<>> THEN <<Plain>>
      ELSE <<Figure("receipts", Len(receipts))>> \o
           Pointing("receipt", 0, Newest(receipts)) \o
           Section(MapSeq(actions, LAMBDA x :
                     Figure("action", Count(receipts, LAMBDA r : r.action = x))))

rows(b) ==
  CASE b.view = "estate" -> estate_rows(b)
    [] b.view = "activity" -> activity_rows(b)
    [] b.view = "runs" -> workflow_run_rows(b)
    [] b.view = "dag" -> dag_rows(b)
    [] b.view = "flow" -> flow_rows(b)
    [] b.view = "events" -> event_rows(b)
    [] b.view = "replay" -> replay_rows(b)
    [] b.view = "fleet" -> fleet_rows(b)
    [] b.view = "cost" -> cost_health_rows(b)
    [] b.view = "audit" -> audit_rows(b)

target_order(b) ==
  MapSeq(SelectSeq(rows(b), LAMBDA r : r.target # NoTarget), LAMBDA r : r.target)

-----------------------------------------------------------------------------
(* The record a target names, and how many lines its detail takes.         *)

PageOf(b) ==
  [task |-> b.tasks, run |-> b.runs, attempt |-> b.attempts, node |-> b.nodes,
   message |-> b.messages, event |-> b.events, attention |-> b.attention,
   session |-> b.sessions, worktree |-> b.worktrees, lease |-> b.leases, cost |-> b.costs,
   ingested |-> b.ingested, receipt |-> b.receipts, frame |-> b.replay]

OnPage(b, target) ==
  target # NoTarget /\ \E i \in DOMAIN PageOf(b)[target[1]] : PageOf(b)[target[1]][i].id = target[2]
Found(b, target) ==
  LET page == PageOf(b)[target[1]]
  IN  page[CHOOSE i \in DOMAIN page : /\ page[i].id = target[2]
                                      /\ \A j \in 1 .. (i - 1) : page[j].id # target[2]]

BudgetAxes == {"max_tokens", "max_tool_calls", "max_wall_ms", "max_cost_micros"}
\* An attempt without a budget is uncapped on every axis.
attempt_budget(a) == IF a.budgeted THEN BudgetAxes \ a.caps ELSE BudgetAxes

DetailLines(b, target) ==
  CASE target[1] \in {"task", "node", "message", "attention", "session", "worktree", "lease"} -> 4
    [] target[1] \in {"event", "cost", "receipt"} -> 5
    [] target[1] = "run" -> 7
    [] target[1] = "ingested" -> 3
    [] target[1] = "frame" -> IF Found(b, target).output THEN 3 ELSE 2
    [] target[1] = "attempt" ->
         LET a == Found(b, target)
         IN  5 + (IF a.budgeted /\ attempt_budget(a) # {} THEN 1 ELSE 0)

detail_lines(b, target) == IF OnPage(b, target) THEN DetailLines(b, target) ELSE 0

stop_attempt(target) ==
  IF target[1] = "attempt" THEN <<[verb |-> "stop", id |-> target[2]]>> ELSE <<>>
replace_attempt_budget(id, version) == [verb |-> "budget", id |-> id, version |-> version]

-----------------------------------------------------------------------------
(* The frame: which rows of a page a terminal of a given height paints.    *)

Monus(a, b) == IF a > b THEN a - b ELSE 0
Least(a, b) == IF a < b THEN a ELSE b
Position(s, x) ==
  IF \E i \in DOMAIN s : s[i] = x
  THEN CHOOSE i \in DOMAIN s : s[i] = x /\ \A j \in 1 .. (i - 1) : s[j] # x ELSE 0

\* Each source line wraps to 'wrap' painted lines; the limit cuts the rest.
wrap_detail(lines, wrap, limit) ==
  [lines |-> Least(lines * wrap, limit), cut |-> lines * wrap > limit]

\* Would slide one row too little.
LateWindow(total, visible, selected) ==
  IF visible = 0 \/ selected = 0 \/ selected - 1 < visible THEN 0
  ELSE Least(selected - 1 - visible, Monus(total, visible))

\* The first row painted: the window slides only far enough to hold the
\* selected row (1-based; 0 is no selection).
WindowStart(total, visible, selected) ==
  IF visible = 0 \/ selected = 0 \/ selected - 1 < visible THEN 0
  ELSE Least(selected - visible, Monus(total, visible))

\* Detail rows asked for, before the body's minimum is honoured.
DesiredDetail(detail, room) ==
  LET cap == Monus(room, 1)
  IN  IF detail.lines = 0 \/ cap < 2 THEN 0
      ELSE Least(detail.lines + 1 + (IF detail.cut THEN 1 ELSE 0), cap)

BodySplit(built, detail, height) ==
  LET room == height - 1
      diagnostics == Cardinality({i \in DOMAIN built : \A j \in 1 .. i : built[j].pinned})
      ordinary == Len(built) - diagnostics
      minimum == diagnostics + (IF ordinary > 1 THEN 2 ELSE 1)
      granted == Least(DesiredDetail(detail, room), Monus(room, minimum))
      pane == IF granted < 2 THEN 0 ELSE granted
  IN  [diagnostics |-> diagnostics, ordinary |-> ordinary, detail |-> pane,
       body |-> room - pane]

render(b, selected, height, wrap) ==
  LET frame(built, detail, split) ==
        LET pinned == Least(split.diagnostics, split.body)
            space == split.body - pinned
            overflow == Monus(split.ordinary, space)
            visible == IF overflow > 0 THEN Monus(space, 1) ELSE split.ordinary
            at == Position(MapSeq(built, LAMBDA r : r.target), selected)
            start == WindowStart(split.ordinary, visible,
                                 IF selected = NoTarget \/ at = 0 THEN 0
                                 ELSE Monus(at, split.diagnostics))
            end == Least(start + visible, split.ordinary)
            capacity == Monus(split.detail, 1)
            truncated == detail.cut \/ detail.lines > capacity
        IN  [pinned |-> pinned, pinned_cut |-> split.diagnostics - pinned,
             diagnostics |-> split.diagnostics, ordinary |-> split.ordinary, space |-> space,
             visible |-> visible, start |-> start, end |-> end,
             marker |-> overflow > 0 /\ space > 0, before |-> start, more |-> split.ordinary - end,
             detail |-> split.detail,
             lines |-> IF split.detail = 0 THEN 0
                       ELSE IF truncated THEN Monus(capacity, 1) ELSE detail.lines,
             hits |-> {built[split.diagnostics + i].target : i \in (start + 1) .. end} \ {NoTarget}]
      framed(built, detail) == frame(built, detail, BodySplit(built, detail, height))
  IN  framed(rows(b), wrap_detail(detail_lines(b, selected), wrap, height - 1))
=============================================================================

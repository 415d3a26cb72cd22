------------------------------ MODULE Console -------------------------------
(***************************************************************************)
(* The console (gridwork tui.rs): one operator at a shell, reading pages   *)
(* of the kernel's projections and submitting commands, while other        *)
(* clients change the same rows.  A page is as old as its last read; every *)
(* command goes out under the key the code derives for it, and the kernel  *)
(* answers a key it has seen with its first answer, or with a conflict.    *)
(*                                                                         *)
(* A command whose answer is lost ends the console, since the reads that   *)
(* follow use the same connection; a new console starts from fresh pages.  *)
(* The terminals of TermAttach are module Workspace's.                     *)
(***************************************************************************)
EXTENDS Integers, FiniteSets, SequencesExt
-----------------------------------------------------------------------------
(***************************************************************************)
(* The workbench shell (crates/gwk-tui/src/shell.rs) and the Queue lens    *)
(* (queue.rs): pure functions of the state they are given.  handle returns *)
(* the shell after a key together with the action the console performs.    *)
(*                                                                         *)
(* Typed text is abstracted to what the code can tell apart: a navigator   *)
(* query is one of Queries with the destinations it is a prefix of, a      *)
(* filter is empty or "q", a prompt is "", a good deadline or a bad one.   *)
(***************************************************************************)

CONSTANTS Queries,       \* navigator texts typed, "" among them
          PrefixOf       \* query |-> the destination names it is a prefix of

MAIL_BUDGET == 3

Siblings(surface) ==
  CASE surface = "Hall" -> <<"Hall">>
    [] surface \in {"WorkQueue", "WorkTasks", "WorkRuns", "WorkConfig"} ->
         <<"WorkQueue", "WorkTasks", "WorkRuns", "WorkConfig">>
    [] surface \in {"FleetAgents", "FleetLeases", "FleetCost"} ->
         <<"FleetAgents", "FleetLeases", "FleetCost">>
    [] surface \in {"FlowEvents", "FlowMessages", "FlowAudit"} ->
         <<"FlowEvents", "FlowMessages", "FlowAudit">>
    [] surface \in {"TermLifetimes", "TermAttach"} -> <<"TermLifetimes", "TermAttach">>

InWork(surface) == surface \in ToSet(Siblings("WorkQueue"))

board_view(surface) ==
  CASE surface = "WorkTasks" -> "dag"    [] surface = "WorkRuns" -> "runs"
    [] surface = "FleetLeases" -> "fleet" [] surface = "FleetCost" -> "cost"
    [] surface = "FlowEvents" -> "events" [] surface = "FlowMessages" -> "flow"
    [] surface = "FlowAudit" -> "audit"   [] OTHER -> "none"

\* Lists wrap at both ends.
Wrap(index, delta, count) == ((index - 1 + delta + count) % count) + 1
adjacent(surface, delta) ==
  LET s == Siblings(surface)
  IN  s[Wrap(CHOOSE i \in DOMAIN s : s[i] = surface, delta, Len(s))]

DESTINATIONS ==
  << <<"hall", "Hall">>, <<"work", "WorkQueue">>, <<"queue", "WorkQueue">>,
     <<"tasks", "WorkTasks">>, <<"dag", "WorkTasks">>, <<"runs", "WorkRuns">>,
     <<"config", "WorkConfig">>, <<"fleet", "FleetAgents">>, <<"agents", "FleetAgents">>,
     <<"leases", "FleetLeases">>, <<"cost", "FleetCost">>, <<"flow", "FlowEvents">>,
     <<"events", "FlowEvents">>, <<"messages", "FlowMessages">>, <<"audit", "FlowAudit">>,
     <<"term", "TermLifetimes">>, <<"attach", "TermAttach">> >>

NoTarget == <<"none", 0>>

ShellState(surface) ==
  [surface |-> surface, mode |-> "View", verb |-> "none", filter |-> "",
   navigator_origin |-> surface, navigator_filter |-> "", query |-> "", index |-> 1,
   filter_origin |-> "", prompt |-> "", label |-> NoTarget, origin |-> "View"]

Result(s, action) == [shell |-> s, action |-> action]
View(s) == [s EXCEPT !.mode = "View", !.verb = "none"]

route(s, surface) ==
  View([s EXCEPT !.surface = surface, !.filter = IF s.surface = surface THEN @ ELSE ""])
change_route(s, surface) ==
  Result([s EXCEPT !.surface = surface, !.filter = IF s.surface = surface THEN @ ELSE ""],
         "RouteChanged")
enter_form(s) == [s EXCEPT !.mode = "Form"]
confirm(s, verb) == [s EXCEPT !.origin = s.mode, !.mode = "Confirm", !.verb = verb]
cancel_modal(s) == View(s)

begin_confirm(s, key) ==
  LET asks(verb, mode) == Result([s EXCEPT !.origin = "View", !.mode = mode, !.verb = verb,
                                           !.prompt = IF mode = "Prompt" THEN "" ELSE @], "Prepare")
  IN  CASE s.surface = "WorkQueue" /\ key = "d" -> Result([s EXCEPT !.mode = "GateDecision"], "OpenGateDecision")
        [] s.surface = "WorkConfig" /\ key = "e" -> Result(s, "Drill")
        [] s.surface = "FleetAgents" /\ key = "b" -> Result(s, "OpenBudgetForm")
        [] s.surface = "WorkQueue" /\ key = "m" -> asks("mute", "Prompt")
        [] s.surface = "WorkQueue" /\ key = "a" -> asks("ack", "Confirm")
        [] s.surface = "WorkQueue" /\ key = "u" -> asks("unmute", "Confirm")
        [] s.surface = "WorkQueue" /\ key = "r" -> asks("resolve", "Confirm")
        [] s.surface = "FleetAgents" /\ key = "s" -> asks("stop", "Confirm")
        [] OTHER -> Result(s, "None")

handle_view(s, key) ==
  CASE key = "C-c" -> Result(s, "Quit")
    [] key = "q" /\ s.surface = "TermAttach" -> change_route(s, "TermLifetimes")
    [] key = "q" /\ InWork(s.surface) -> change_route(s, "Hall")
    [] key = "q" /\ s.surface # "TermAttach" /\ ~InWork(s.surface) -> Result(s, "Quit")
    [] key = ":" -> Result([s EXCEPT !.navigator_origin = s.surface, !.navigator_filter = s.filter,
                                     !.query = "", !.index = 1, !.mode = "Navigator"], "None")
    [] key = "/" -> Result([s EXCEPT !.filter_origin = s.filter, !.mode = "Filter"], "None")
    [] key = "Home" -> change_route(s, "Hall")
    [] key = "Esc" /\ s.surface = "TermAttach" -> change_route(s, "TermLifetimes")
    [] key = "Esc" /\ s.surface \notin {"TermAttach", "Hall"} -> change_route(s, "Hall")
    [] key = "Left" -> change_route(s, adjacent(s.surface, -1))
    [] key = "Right" -> change_route(s, adjacent(s.surface, 1))
    [] key = "Down" -> Result(s, "MoveDown")
    [] key = "Up" -> Result(s, "MoveUp")
    [] key = "Enter" -> Result(s, "Drill")
    [] key = "i" /\ s.surface = "TermAttach" -> Result([s EXCEPT !.mode = "Input"], "EnterInput")
    [] OTHER -> begin_confirm(s, key)

navigator_matches(s) ==
  SelectSeq(DESTINATIONS, LAMBDA d : d[1] \in PrefixOf[s.query])

\* The lens under the cursor is shown while the operator chooses.
Preview(s) ==
  LET found == navigator_matches(s)
  IN  IF s.index \in DOMAIN found
      THEN Result([s EXCEPT !.surface = found[s.index][2], !.filter = ""], "PreviewRoute")
      ELSE Result(s, "None")

move_navigator(s, delta) ==
  IF navigator_matches(s) = <<>> THEN Result(s, "None")
  ELSE Preview([s EXCEPT !.index = Wrap(@, delta, Len(navigator_matches(s)))])

handle_navigator(s, key) ==
  LET found == navigator_matches(s) IN
  CASE key = "Esc" -> Result(View([s EXCEPT !.surface = s.navigator_origin,
                                            !.filter = s.navigator_filter]), "NavigatorCanceled")
    [] key = "Enter" /\ s.index \in DOMAIN found ->
         Result(View([s EXCEPT !.surface = found[s.index][2], !.filter = ""]), "RouteChanged")
    [] key = "Down" -> move_navigator(s, 1)
    [] key = "Up" -> move_navigator(s, -1)
    [] key \in Queries -> Preview([s EXCEPT !.query = key, !.index = 1])
    [] OTHER -> Result(s, "None")

handle_filter(s, key) ==
  CASE key = "Esc" -> Result(View([s EXCEPT !.filter = s.filter_origin]), "FilterChanged")
    [] key = "Enter" -> Result(View(s), "FilterChanged")
    [] key = "Backspace" -> Result([s EXCEPT !.filter = ""], "FilterChanged")
    [] key = "a" -> Result([s EXCEPT !.filter = "q"], "FilterChanged")
    [] OTHER -> Result(s, "None")

handle_confirm(s, key) ==
  CASE key \in {"Esc", "n"} ->
         Result([s EXCEPT !.mode = s.origin, !.verb = "none", !.label = NoTarget,
                          !.prompt = IF s.verb = "mute" THEN "" ELSE @], "CancelConfirmation")
    [] key \in {"Enter", "y"} -> Result(View([s EXCEPT !.label = NoTarget]), "Confirmed")
    [] OTHER -> Result(s, "None")

handle_prompt(s, key) ==
  CASE key = "Esc" -> Result(View([s EXCEPT !.prompt = "", !.label = NoTarget]), "CancelConfirmation")
    [] key = "Enter" /\ s.prompt # "" -> Result([s EXCEPT !.origin = "View", !.mode = "Confirm"], "None")
    [] key = "Backspace" -> Result([s EXCEPT !.prompt = ""], "None")
    [] key \in {"later", "past"} -> Result([s EXCEPT !.prompt = key], "None")
    [] OTHER -> Result(s, "None")

handle_gate_decision(s, key) ==
  CASE key \in {"Esc", "n"} -> Result(View(s), "CancelGateDecision")
    [] key \in {"Enter", "y"} -> Result(s, "CommitGateDecision")
    [] key = "Down" -> Result(s, "NextOption")
    [] key = "Up" -> Result(s, "PreviousOption")
    [] OTHER -> Result(s, "None")

handle_form(s, key) ==
  CASE key = "Esc" -> Result(View(s), "CancelForm")
    [] key = "Enter" -> Result(s, "CommitForm")
    [] key = "Backspace" -> Result(s, "BackspaceForm")
    [] key = "9" -> Result(s, "EditForm")
    [] OTHER -> Result(s, "None")

handle_input(s, key) ==
  IF key = "C-]" THEN Result(View(s), "LeaveInput") ELSE Result(s, "ForwardInput")

handle(s, key) ==
  CASE s.mode = "Input" -> handle_input(s, key)
    [] s.mode = "View" -> handle_view(s, key)
    [] s.mode = "Navigator" -> handle_navigator(s, key)
    [] s.mode = "Filter" -> handle_filter(s, key)
    [] s.mode = "Prompt" -> handle_prompt(s, key)
    [] s.mode = "Confirm" -> handle_confirm(s, key)
    [] s.mode = "GateDecision" -> handle_gate_decision(s, key)
    [] s.mode = "Form" -> handle_form(s, key)

-----------------------------------------------------------------------------
(* The Queue.  item [id, priority, acked, muted_until, resolved, at];      *)
(* gate [id, verdict, version, question, options, chosen, at]; message     *)
(* [id, state].  0 stands for an instant that is not set, -1 for no rank.  *)

open_prompt(gate) == gate.question /\ gate.verdict = "pending"
audible(item, now) == item.resolved = 0 /\ item.acked = 0 /\ item.muted_until <= now

audible_count(q) ==
  Cardinality({i \in DOMAIN q.gates : open_prompt(q.gates[i])}) +
  Cardinality({i \in DOMAIN q.attention : audible(q.attention[i], q.now)})

Less(a, b) == \E i \in DOMAIN a : a[i] < b[i] /\ \A j \in 1 .. (i - 1) : a[j] = b[j]

\* Open items, lowest priority number first, unranked (-1) last.
ranked(items) ==
  SortSeq(SelectSeq(items, LAMBDA i : i.resolved = 0),
          LAMBDA a, b : Less(<<IF a.priority = -1 THEN 1 ELSE 0, a.priority, a.id>>,
                             <<IF b.priority = -1 THEN 1 ELSE 0, b.priority, b.id>>))

Line == [target |-> NoTarget, note |-> ""]
At(kind, id) == [target |-> <<kind, id>>, note |-> ""]
Lines(n) == [i \in 1 .. n |-> Line]

\* A list of messages within its budget; what is left over is counted.
MailLines(count, each) ==
  LET shown == IF count < MAIL_BUDGET THEN count ELSE MAIL_BUDGET
  IN  Lines(shown * each + IF count > MAIL_BUDGET THEN 1 ELSE 0)

queue_rows(q) ==
  LET gates == SelectSeq(q.gates, LAMBDA g : open_prompt(g))
      items == ranked(q.attention)
      arrived == Len(SelectSeq(q.messages, LAMBDA m : m.state \in {"delivered", "acknowledged", "applied"}))
      failed == Len(SelectSeq(q.messages, LAMBDA m : m.state \in {"dead_letter", "rejected"}))
      recent == Len(SelectSeq(q.gates, LAMBDA g : ~open_prompt(g) /\ g.question)) +
                Len(SelectSeq(q.attention, LAMBDA i : i.resolved # 0))
      gate_lines(g) == <<At("gate", g.id)>> \o IF g.options = <<>> THEN <<>> ELSE <<Line>>
  IN  <<[Line EXCEPT !.note = IF audible_count(q) = 0 THEN "all clear" ELSE "need attention"]>> \o
      FlattenSeq([i \in DOMAIN gates |-> gate_lines(gates[i])]) \o
      [i \in DOMAIN items |-> At("attention", items[i].id)] \o
      (IF arrived + failed = 0 THEN Lines(1) ELSE MailLines(arrived, 1) \o MailLines(failed, 2)) \o
      Lines(1) \o Lines(IF recent = 0 THEN 1 ELSE recent)

queue_target_order(q) ==
  LET shown == SelectSeq(queue_rows(q), LAMBDA r : r.target # NoTarget)
  IN  [i \in DOMAIN shown |-> shown[i].target]

\* A label the kernel's verdicts have no word for decides nothing.
verdict_for_option(option) ==
  CASE option = "approve" -> "pass" [] option = "deny" -> "fail" [] option = "defer" -> "partial"
    [] OTHER -> "none"

NoCommand == [do |-> "none"]
attention_command(verb, target) ==
  IF target[1] = "attention" THEN [do |-> verb, id |-> target[2]] ELSE NoCommand
decide(gate, option) ==
  IF gate.verdict # "pending" \/ option \notin ToSet(gate.options) \/ verdict_for_option(option) = "none"
  THEN NoCommand
  ELSE [do |-> "decide", id |-> gate.id, version |-> gate.version,
        verdict |-> verdict_for_option(option), chosen |-> option]

-----------------------------------------------------------------------------
(* Lists with one selected row.                                            *)

reconcile_in_order(order, selected) ==
  IF order = <<>> THEN NoTarget
  ELSE IF selected \in ToSet(order) THEN selected ELSE order[1]

move_in_order(order, selected, delta) ==
  IF order = <<>> THEN NoTarget
  ELSE LET at == IF selected \in ToSet(order) THEN CHOOSE i \in DOMAIN order : order[i] = selected
                 ELSE IF delta < 0 THEN 1 ELSE Len(order)
       IN  order[Wrap(at, delta, Len(order))]

-----------------------------------------------------------------------------
CONSTANTS Menus,         \* what a behaviour may do: see MCWorkbench
          MAX_DIGITS,    \* digits a budget field holds before it overflows
          CLOCK          \* the last instant of the clock

VARIABLES kernel,        \* attention, gates, attempts, issued stops, keys seen
          con,           \* the console's model
          clock,         \* the current instant
          last,          \* the last command sent and the target shown for it
          used,          \* how much of the menu's budget is spent
          menu           \* rigid

vars == <<kernel, con, clock, last, used, menu>>

B == INSTANCE Board WITH SUMMARY_ROWS <- 5

NoDecision == [selected |-> 0]
NoForm == [id |-> 0]
NoLast == [command |-> NoCommand, shown |-> NoTarget]

-----------------------------------------------------------------------------
(* Pages.                                                                  *)

refresh_queue(c, k) ==
  [c EXCEPT !.queue = [attention |-> k.attention, gates |-> k.gates, messages |-> <<>>, now |-> clock]]

\* Would mark an item that is muted or acknowledged.
MarkUnresolved(c) ==
  [c EXCEPT !.mark = \/ \E i \in DOMAIN c.queue.attention : c.queue.attention[i].resolved = 0
                     \/ \E i \in DOMAIN c.queue.gates : open_prompt(c.queue.gates[i])]

update_attention_marks(c) ==
  [c EXCEPT !.mark = \/ \E i \in DOMAIN c.queue.attention : audible(c.queue.attention[i], c.queue.now)
                     \/ \E i \in DOMAIN c.queue.gates : open_prompt(c.queue.gates[i])]

\* A filter keeps the records whose text holds it: here, those of odd id.
Keep(s, filter) == IF filter = "" THEN s ELSE SelectSeq(s, LAMBDA x : x.id % 2 = 1)
filtered_queue(q, filter) ==
  [q EXCEPT !.attention = Keep(@, filter), !.gates = Keep(@, filter)]
filtered_board(b, filter) == [b EXCEPT !.attempts = Keep(@, filter), !.tasks = Keep(@, filter)]

Listed(c) == queue_target_order(filtered_queue(c.queue, c.shell.filter))
OnBoard(c) == B!target_order(filtered_board(c.board, c.shell.filter))

refresh_board(c, k, view) ==
  [c EXCEPT !.board = [@ EXCEPT !.view = view,
                                !.attempts = IF view \in {"dag", "fleet"} THEN k.attempts ELSE @]]

refresh_surface(c, k) ==
  CASE c.shell.surface = "FleetAgents" -> refresh_board(c, k, "fleet")
    [] c.shell.surface # "FleetAgents" /\ board_view(c.shell.surface) # "none" ->
         refresh_board(c, k, board_view(c.shell.surface))
    [] OTHER -> c

reconcile_selection(c) ==
  [c EXCEPT !.queue_selected = reconcile_in_order(Listed(c), @),
            !.board_selected = reconcile_in_order(OnBoard(c), @)]

move_workspace_selection(c, delta) ==
  CASE c.shell.surface = "WorkQueue" ->
         [c EXCEPT !.queue_selected = move_in_order(Listed(c), @, delta)]
    [] c.shell.surface \in {"Hall", "WorkConfig", "TermLifetimes", "TermAttach"} -> c
    [] OTHER -> [c EXCEPT !.board_selected = move_in_order(OnBoard(c), @, delta)]

ConsoleModel(surface, k) ==
  LET blank == [alive |-> TRUE, shell |-> ShellState(surface), board |-> B!Board("estate", 0, TRUE),
                queue |-> [attention |-> <<>>, gates |-> <<>>, messages |-> <<>>, now |-> 0],
                queue_selected |-> NoTarget, board_selected |-> NoTarget,
                gate_decision |-> NoDecision, budget_form |-> NoForm, target |-> NoTarget,
                mark |-> FALSE, said |-> NoCommand]
  IN  update_attention_marks(reconcile_selection(refresh_surface(refresh_queue(blank, k), k)))

-----------------------------------------------------------------------------
(* Modals.                                                                 *)

Modal(c, s) == [c EXCEPT !.shell = s]
Selected(s, id) == s[CHOOSE i \in DOMAIN s : s[i].id = id]
Present(s, id) == \E i \in DOMAIN s : s[i].id = id

\* Mutant: a gate that cannot be decided leaves the modal open.
OpensOnNothing(c) ==
  LET id == c.queue_selected[2]
  IN  IF /\ c.queue_selected[1] = "gate" /\ Present(c.queue.gates, id)
         /\ open_prompt(Selected(c.queue.gates, id))
      THEN [c EXCEPT !.gate_decision = [gate |-> Selected(c.queue.gates, id), selected |-> 1]]
      ELSE c

open_gate_decision(c) ==
  LET id == c.queue_selected[2]
      opens == /\ c.queue_selected[1] = "gate" /\ Present(c.queue.gates, id)
               /\ open_prompt(Selected(c.queue.gates, id))
               /\ Selected(c.queue.gates, id).options # <<>>
  IN  IF opens THEN [c EXCEPT !.gate_decision = [gate |-> Selected(c.queue.gates, id), selected |-> 1]]
      ELSE Modal(c, cancel_modal(c.shell))

MoveGateOption(c, delta) ==
  IF c.gate_decision = NoDecision THEN c
  ELSE [c EXCEPT !.gate_decision.selected = Wrap(@, delta, Len(c.gate_decision.gate.options))]

\* A field is the number of its digits: none is uncapped, and one digit past
\* MAX_DIGITS no longer fits the integer.
BudgetFormState(a) ==
  [id |-> a.id, version |-> a.version, original |-> a.budget, field |-> a.budget,
   replace_on_type |-> TRUE]
insert(f) ==
  [f EXCEPT !.field = IF f.replace_on_type THEN 1 ELSE IF @ > MAX_DIGITS THEN @ ELSE @ + 1,
            !.replace_on_type = FALSE]
backspace(f) == [f EXCEPT !.field = IF @ = 0 THEN 0 ELSE @ - 1, !.replace_on_type = FALSE]
Fits(f) == f.field <= MAX_DIGITS

open_budget_form(c) ==
  LET id == c.board_selected[2]
  IN  IF c.board_selected[1] = "attempt" /\ Present(c.board.attempts, id)
      THEN [c EXCEPT !.budget_form = BudgetFormState(Selected(c.board.attempts, id)),
                     !.shell = enter_form(@)]
      ELSE c

QueueVerbs == {"ack", "mute", "unmute", "resolve"}

prepare_console_confirmation(c, verb) ==
  LET target == CASE verb \in QueueVerbs -> c.queue_selected
                  [] verb = "stop" -> c.board_selected
                  [] verb = "budget" -> IF c.budget_form = NoForm THEN NoTarget
                                        ELSE <<"attempt", c.budget_form.id>>
      kind == IF verb \in QueueVerbs THEN "attention" ELSE "attempt"
  IN  IF target[1] = kind
      THEN [c EXCEPT !.target = target, !.shell.label = target]
      ELSE [c EXCEPT !.target = NoTarget, !.shell = cancel_modal(@)]

CommitForm(c) ==
  IF c.budget_form = NoForm \/ ~Fits(c.budget_form) THEN c
  ELSE LET p == prepare_console_confirmation(c, "budget")
       IN  IF p.target = NoTarget THEN p ELSE Modal(p, confirm(p.shell, "budget"))

RouteChanged(c, previous) ==
  LET left(surface) == previous = surface /\ c.shell.surface # surface
      kept == [c EXCEPT !.gate_decision = IF left("WorkQueue") THEN NoDecision ELSE @,
                        !.budget_form = IF left("FleetAgents") THEN NoForm ELSE @]
  IN  reconcile_selection(refresh_surface(kept, kernel))

-----------------------------------------------------------------------------
(* Commands.                                                               *)

mute_deadline(prompt) == IF prompt = "later" THEN CLOCK ELSE 0

verb_target_is_visible(c, verb, target) ==
  CASE verb \in QueueVerbs -> target \in ToSet(Listed(c))
    [] verb = "stop" -> target \in ToSet(OnBoard(c))
    [] verb = "budget" -> c.budget_form # NoForm /\ c.budget_form.id = target[2]

\* Mutant: a budget is sent with the version on the board, not the form's.
BudgetAtBoardVersion(c, verb, target) ==
  IF verb # "budget" \/ ~Fits(c.budget_form) THEN NoCommand
  ELSE [do |-> "budget", id |-> c.budget_form.id, budget |-> c.budget_form.field,
        version |-> Selected(c.board.attempts, c.budget_form.id).version]

VerbCommand(c, verb, target) ==
  CASE verb \in {"ack", "unmute", "resolve"} -> attention_command(verb, target)
    [] verb = "mute" ->
         IF mute_deadline(c.shell.prompt) <= clock THEN NoCommand
         ELSE [do |-> "mute", id |-> target[2], until |-> mute_deadline(c.shell.prompt)]
    [] verb = "stop" -> [do |-> "stop", id |-> target[2]]
    [] verb = "budget" ->
         IF ~Fits(c.budget_form) THEN NoCommand
         ELSE [do |-> "budget", id |-> c.budget_form.id, version |-> c.budget_form.version,
               budget |-> c.budget_form.field]

\* Keys that name what is done; the others carry a nonce and never repeat.
NoKey == <<"nonce">>
KeyOf(command) ==
  CASE command.do \in {"decide", "budget"} -> <<command.do, command.id, command.version>>
    [] command.do \in {"resolve", "stop"} -> <<command.do, command.id>>
    [] OTHER -> NoKey

Admits(k, command) ==
  CASE command.do = "resolve" -> k.attention[command.id].resolved = 0
    [] command.do = "decide" -> /\ k.gates[command.id].verdict = "pending"
                                /\ k.gates[command.id].version = command.version
    [] command.do = "budget" -> k.attempts[command.id].version = command.version
    [] OTHER -> TRUE

Apply(k, command) ==
  LET id == command.id IN
  CASE command.do = "ack" -> [k EXCEPT !.attention[id].acked = 1]
    [] command.do = "mute" -> [k EXCEPT !.attention[id].muted_until = command.until]
    [] command.do = "unmute" -> [k EXCEPT !.attention[id].muted_until = 0]
    [] command.do = "resolve" -> [k EXCEPT !.attention[id].resolved = 1]
    [] command.do = "stop" -> [k EXCEPT !.stops = @ \cup {id}]
    [] command.do = "decide" -> [k EXCEPT !.gates[id].verdict = command.verdict,
                                          !.gates[id].chosen = command.chosen,
                                          !.gates[id].version = @ + 1]
    [] command.do = "budget" -> [k EXCEPT !.attempts[id].budget = command.budget,
                                          !.attempts[id].version = @ + 1]

\* A seen key replays its answer for the same command and conflicts otherwise.
Seen(k, command) == \E e \in k.keys : e.key = KeyOf(command)
Replays(k, command) == [key |-> KeyOf(command), command |-> command] \in k.keys
Accepts(k, command) == Replays(k, command) \/ (~Seen(k, command) /\ Admits(k, command))
After(k, command) ==
  IF Replays(k, command) THEN k
  ELSE LET done == Apply(k, command)
       IN  IF KeyOf(command) = NoKey THEN done
           ELSE [done EXCEPT !.keys = @ \cup {[key |-> KeyOf(command), command |-> command]}]

Spent(what) == used' = [used EXCEPT ![what] = @ + 1]
Within(what) == used[what] < menu[what]
Exit(c) == [c EXCEPT !.alive = FALSE]

\* One request: answered, refused, or lost before or after it was applied.
submit_console_command(command, shown, applied, refused, lost) ==
  /\ Within("commands")
  /\ last' = [command |-> command, shown |-> shown]
  /\ \/ /\ Spent("commands")
        /\ kernel' = IF Accepts(kernel, command) THEN After(kernel, command) ELSE kernel
        /\ con' = IF Accepts(kernel, command) THEN applied ELSE refused
     \/ /\ Within("faults") /\ used' = [used EXCEPT !.commands = @ + 1, !.faults = @ + 1]
        /\ kernel' \in {kernel, IF Accepts(kernel, command) THEN After(kernel, command) ELSE kernel}
        /\ con' = Exit(lost)
-----------------------------------------------------------------------------
(* Steps.                                                                  *)

Stay(c) == con' = c /\ UNCHANGED <<kernel, last, used>>

commit_gate_decision(c) ==
  LET d == c.gate_decision
      option == d.gate.options[d.selected]
      command == decide(d.gate, option)
      reread(x, k) == update_attention_marks(refresh_queue(x, k))
      closed == [c EXCEPT !.gate_decision = NoDecision, !.shell = cancel_modal(@), !.said = command]
  IN  \/ d = NoDecision /\ Stay(Modal(c, cancel_modal(c.shell)))
      \/ d # NoDecision /\ command = NoCommand /\ Stay(c)
      \/ /\ d # NoDecision /\ command # NoCommand
         /\ submit_console_command(command, <<"gate", d.gate.id>>,
                                   reread(closed, After(kernel, command)), reread(c, kernel), c)

execute_console_verb(before, verb) ==
  LET target == before.target
      c == [before EXCEPT !.target = NoTarget]
      refused == target = NoTarget \/ ~verb_target_is_visible(c, verb, target)
      command == VerbCommand(c, verb, target)
      done == [c EXCEPT !.budget_form = IF verb = "budget" THEN NoForm ELSE @]
      reread(x, k) ==
        update_attention_marks(reconcile_selection(refresh_surface(refresh_queue(x, k), k)))
  IN  \/ refused /\ Stay(c)
      \/ ~refused /\ command = NoCommand /\ Stay(c)
      \/ /\ ~refused /\ command # NoCommand
         /\ submit_console_command(command, con.shell.label,
                reread([done EXCEPT !.said = command], After(kernel, command)), reread(done, kernel), c)

\* The actions of the shell that send nothing.
Local(c, action, previous) ==
  CASE action = "FilterChanged" -> reconcile_selection(c)
    [] action \in {"PreviewRoute", "NavigatorCanceled"} -> reconcile_selection(refresh_surface(c, kernel))
    [] action = "RouteChanged" -> RouteChanged(c, previous)
    [] action = "MoveDown" -> move_workspace_selection(c, 1)
    [] action = "MoveUp" -> move_workspace_selection(c, -1)
    [] action = "OpenGateDecision" -> open_gate_decision(c)
    [] action = "OpenBudgetForm" -> open_budget_form(c)
    [] action = "NextOption" -> MoveGateOption(c, 1)
    [] action = "PreviousOption" -> MoveGateOption(c, -1)
    [] action = "CancelGateDecision" -> [c EXCEPT !.gate_decision = NoDecision]
    [] action = "EditForm" /\ c.budget_form # NoForm -> [c EXCEPT !.budget_form = insert(@)]
    [] action = "BackspaceForm" /\ c.budget_form # NoForm -> [c EXCEPT !.budget_form = backspace(@)]
    [] action = "CommitForm" -> CommitForm(c)
    [] action = "CancelForm" -> [c EXCEPT !.budget_form = NoForm]
    [] action = "Prepare" -> prepare_console_confirmation(c, c.shell.verb)
    [] action = "CancelConfirmation" -> [c EXCEPT !.target = NoTarget]
    [] action = "Quit" -> Exit(c)
    [] OTHER -> c

InTerminal(c) == c.shell.surface = "TermAttach" /\ c.shell.mode = "View"

\* A key on TermAttach goes to the terminals and never reaches the shell.
Key(key) ==
  LET r == handle(con.shell, key)
      c == [con EXCEPT !.shell = r.shell, !.said = NoCommand]
  IN  /\ con.alive /\ ~InTerminal(con)
      /\ \/ r.action = "CommitGateDecision" /\ commit_gate_decision(c)
         \/ r.action = "Confirmed" /\ execute_console_verb(c, con.shell.verb)
         \/ r.action \notin {"CommitGateDecision", "Confirmed"} /\ Stay(Local(c, r.action, con.shell.surface))
      /\ UNCHANGED <<clock, menu>>

\* A click that hits no row clears the selection.
Click(target) ==
  LET painted == IF con.shell.surface = "FleetAgents"
                 THEN IF con.budget_form # NoForm THEN {}
                      ELSE {<<"attempt", a.id>> : a \in ToSet(Keep(con.board.attempts, con.shell.filter))}
                 ELSE IF con.shell.surface = "WorkQueue" THEN ToSet(Listed(con)) ELSE ToSet(OnBoard(con))
  IN  /\ con.alive /\ con.shell.mode = "View" /\ target \in painted \cup {NoTarget}
      /\ con.shell.surface \notin {"Hall", "WorkConfig", "TermLifetimes", "TermAttach"}
      /\ Stay(IF con.shell.surface = "WorkQueue" THEN [con EXCEPT !.queue_selected = target]
              ELSE [con EXCEPT !.board_selected = target])
      /\ UNCHANGED <<clock, menu>>

EventBatch ==
  /\ con.alive
  /\ Stay(update_attention_marks(reconcile_selection(refresh_surface(refresh_queue(con, kernel), kernel))))
  /\ UNCHANGED <<clock, menu>>

ClockTick ==
  /\ con.alive
  /\ Stay(update_attention_marks([con EXCEPT !.queue.now = clock]))
  /\ UNCHANGED <<clock, menu>>

TimePasses == clock < CLOCK /\ clock' = clock + 1 /\ UNCHANGED <<kernel, con, last, used, menu>>

\* A binding the kernel confirmed late, or leaving the terminals.
WorkspaceRoutes ==
  /\ con.alive
  /\ \/ InTerminal(con) /\ Stay(Modal(con, route(con.shell, "TermLifetimes")))
     \/ Within("attaches") /\ Spent("attaches") /\ con' = Modal(con, route(con.shell, "TermAttach"))
        /\ UNCHANGED <<kernel, last>>
  /\ UNCHANGED <<clock, menu>>

\* Another console, or the command line, works on the same rows.
OtherClient ==
  /\ Within("others") /\ Spent("others")
  /\ \E command \in menu.edits :
       /\ Accepts(kernel, command) /\ kernel' = After(kernel, command) /\ kernel' # kernel
  /\ UNCHANGED <<con, clock, last, menu>>

StartAgain ==
  /\ ~con.alive /\ Within("starts") /\ Spent("starts")
  /\ con' = ConsoleModel(menu.surface, kernel)
  /\ UNCHANGED <<kernel, clock, last, menu>>

Init ==
  /\ menu \in Menus /\ clock = 0 /\ last = NoLast
  /\ kernel = menu.kernel
  /\ con = ConsoleModel(menu.surface, menu.kernel)
  /\ used = [commands |-> 0, others |-> 0, faults |-> 0, starts |-> 0, attaches |-> 0]

Next ==
  \/ \E key \in menu.keys : Key(key)
  \/ \E target \in menu.clicks : Click(target)
  \/ EventBatch \/ ClockTick \/ TimePasses \/ WorkspaceRoutes \/ OtherClient \/ StartAgain

Spec == Init /\ [][Next]_vars

-----------------------------------------------------------------------------
(* What the console must get right.                                        *)

\* A modal always has its subject: a gate under decision, a form under edit,
\* a confirmation whose words name the row it will act on, although pages
\* are reread, selections move and routes change underneath it
\* (tui.rs prepare_console_confirmation, open_gate_decision, open_budget_form).
ModalHasSubject ==
  LET s == con.shell IN
  /\ s.mode = "GateDecision" => con.gate_decision # NoDecision
  /\ s.mode = "Form" => con.budget_form # NoForm
  /\ s.mode \in {"Confirm", "Prompt"} => con.target = s.label /\ con.target # NoTarget
  /\ s.mode = "Confirm" /\ s.verb = "budget" => con.budget_form.id = con.target[2]

\* What is sent acts on the row the confirmation showed when it was accepted,
\* never on the row the selection has since moved to (tui.rs
\* execute_console_verb, commit_gate_decision).
SentAsShown == last.command # NoCommand => last.command.id = last.shown[2]

\* A budget is replaced only by an operator whose form showed the budget being
\* replaced: two consoles editing one attempt never overwrite one another
\* unseen (tui.rs 1721-1742, board.rs replace_attempt_budget).
NothingOverwritten ==
  [][\A id \in DOMAIN kernel.attempts :
       /\ kernel'.attempts[id] # kernel.attempts[id] /\ used'.commands # used.commands
       => con.budget_form.original = kernel.attempts[id].budget]_vars

\* When the console says it decided a gate with an option, the kernel holds
\* that very decision, whoever answered first and whatever was retried
\* (tui.rs commit_gate_decision).
DecidedAsTold ==
  con.said # NoCommand /\ con.said.do = "decide" =>
    kernel.gates[con.said.id].chosen = con.said.chosen

\* The mark on the Work lens and the count on the Queue's first line, which is of
\* the rows the filter keeps, never disagree while there is no filter: a quieted,
\* resolved or decided row is gone from both.  Under a filter a count means a mark,
\* and the line may say "all clear" beside a mark (against queue.rs: "the count
\* and the `!` marks always agree").
MarksAgree ==
  LET count == audible_count(filtered_queue(con.queue, con.shell.filter)) IN
  con.alive => /\ count > 0 => con.mark
               /\ con.mark /\ con.shell.filter = "" => count > 0

\* A confirmation always has its subject, what is submitted is what the operator
\* was shown and confirmed, the notice tells what the kernel did, and the mark is
\* that of the page.
ActsOnConfirmed == ModalHasSubject /\ SentAsShown /\ DecidedAsTold /\ MarksAgree
=============================================================================

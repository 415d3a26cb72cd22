---------------------------- MODULE MCWorkbench -----------------------------
(***************************************************************************)
(* Small instances of the operator's workbench: the console and its queue, *)
(* the pages behind the board and the hall, and the configuration lens.    *)
(* The machines share no state; a behaviour runs the one that "which"      *)
(* names and leaves the others where they began.                           *)
(***************************************************************************)
EXTENDS Console

CONSTANT Machines    \* the machines this run exercises

VARIABLES
    which,
    (* BoardFeed *)
    feed, board, delivered,
    (* ConfigForm *)
    form,
    (* ConfigLens *)
    work, index, history, lock, console, evidence, item, keys, strays, starts,
    (* Estate *)
    tasks, attempts, items, seq,
    (* Pages *)
    log, rows, known, job

-----------------------------------------------------------------------------
(* Consoles: typing at the navigator, deciding gates while another client  *)
(* does, working the queue, giving budgets, stopping.                      *)
Queued(id, priority) ==
  [id |-> id, priority |-> priority, acked |-> 0, muted_until |-> 0, resolved |-> 0, at |-> id]
Gate(id, options) ==
  [id |-> id, verdict |-> "pending", version |-> 1, question |-> TRUE, options |-> options,
   chosen |-> "", at |-> id]
Running(id) == [id |-> id, task |-> 0, state |-> "running", at |-> id, version |-> 1, budget |-> 0]
Tables(attention, gates, runs) ==
  [attention |-> attention, gates |-> gates, attempts |-> runs, stops |-> {}, keys |-> {}]

Plan(at, k, typed, clicks, edits, commands, others, faults, attaches) ==
  [surface |-> at, kernel |-> k, keys |-> typed, clicks |-> clicks, edits |-> edits,
   commands |-> commands, others |-> others, faults |-> faults, starts |-> faults,
   attaches |-> attaches]

SmallPrefixOf ==
  [q \in {"", "a"} |-> IF q = "" THEN {DESTINATIONS[i][1] : i \in DOMAIN DESTINATIONS}
                       ELSE {"agents", "audit", "attach"}]

Two == Tables(<<Queued(1, 1), Queued(2, -1)>>, <<Gate(1, <<"approve", "deny", "later">>)>>, <<>>)
Items == Tables(Two.attention, <<>>, <<>>)
Runs == Tables(<<>>, <<>>, <<Running(1), Running(2)>>)
Decide(option) == decide(Gate(1, <<"approve", "deny", "later">>), option)
Budget(id, version, digits) == [do |-> "budget", id |-> id, version |-> version, budget |-> digits]
Typing == Plan("WorkTasks", Tables(<<Queued(1, 0)>>, <<>>, <<Running(1), Running(2)>>),
               {":", "a", "Esc", "Enter", "Down", "Right"}, {}, {}, 0, 0, 0, 0)

SmallPlans ==
  { Typing,
    Plan("WorkQueue", Two, {"d", "Enter", "Esc", "Down", "Right", "q"}, {<<"gate", 1>>},
         {Decide("approve"), Decide("deny")}, 1, 1, 1, 1),
    Plan("WorkQueue", Items, {"a", "m", "r", "/", "y", "Esc", "Enter", "later", "past", "Down"}, {},
         {[do |-> "resolve", id |-> 1]}, 1, 1, 0, 0),
    Plan("FleetAgents", Runs, {"b", "9", "Backspace", "Enter", "Esc"},
         {<<"attempt", 1>>, <<"attempt", 2>>}, {Budget(1, 1, 2), Budget(1, 2, 1)}, 2, 1, 0, 0),
    Plan("FleetAgents", Runs, {"s", "Up", "Home", "Left", "n", "q", "C-c", "Enter"},
         {<<"attempt", 1>>}, {}, 1, 0, 0, 0) }

-----------------------------------------------------------------------------
(* Board pages: a task and its attempts, spawns that hang in a cycle, from *)
(* another attempt or from beyond the page, replies likewise, a ledger.    *)
Task(i) == <<"task", [id |-> i, state |-> "working", at |-> 1]>>
Attempt(i, t) == <<"attempt", [id |-> i, task |-> t, state |-> "running", at |-> 1,
                               version |-> 1, budgeted |-> FALSE, caps |-> {}]>>
Spawn(i, a, p) == <<"node", [id |-> i, attempt |-> a, parent |-> p]>>
Message(i, r, c) == <<"message", [id |-> i, reply |-> r, correlation |-> c, at |-> 3 - i]>>
Cost(i, e, m) == <<"cost", [id |-> i, engine |-> e, model |-> i \div 2, micros |-> m, estimate |-> FALSE,
                            at |-> i, tokens |-> [x \in {"input", "output", "cached_input",
                                                         "cache_write", "reasoning"} |-> -1]]>>
Raised(i, p, r) == <<"attention", [id |-> i, priority |-> p, resolved |-> r, at |-> i]>>
Tree(i, r) == <<"worktree", [id |-> i, released |-> r, dirty |-> TRUE, unpushed |-> FALSE, at |-> i]>>
Session(i, e) == <<"session", [id |-> i, attempt |-> 1, ended |-> e]>>
Lease(i) == <<"lease", [id |-> i, state |-> "held", at |-> i]>>
Receipt(i, b) == <<"receipt", [id |-> i, action |-> b, at |-> i, basis |-> b]>>
Run(i, c) == <<"run", [id |-> i, at |-> i, closed |-> c]>>
Ingested(i, k) == <<"ingested", [id |-> i, kind |-> k]>>

Page(view, records) == [view |-> view, start |-> 0, records |-> records]
EventTail == [view |-> "events", start |-> 3, records |-> {}]

SmallFeeds ==
    {Page("dag", {Task(1), Attempt(1, 1), Attempt(2, 7), Spawn(1, 1, 0), Spawn(2, 1, 1),
                  Spawn(3, 2, 1), Spawn(4, 1, 5), Spawn(5, 1, 4)}),
     Page("flow", {Message(1, 0, 1), Message(2, 1, 1), Message(3, 4, 0), Message(4, 3, 2),
                   Message(5, 9, 0)}),
     Page("cost", {Cost(1, 1, 5), Cost(2, 1, -1), Cost(3, 1, 7), Ingested(1, "session")}),
     Page("activity", {Task(1), Raised(1, -1, 0), Raised(2, 0, 0), Tree(1, 0)}),
     Page("estate", {Raised(1, -1, 0), Raised(2, 0, 0), Raised(2, 0, 4)}),
     Page("fleet", {Attempt(1, 1), Attempt(2, 1), Session(1, 0), Tree(1, 3), Lease(1)}),
     Page("audit", {Receipt(1, TRUE), Receipt(2, FALSE)}),
     Page("runs", {Run(1, 0), Run(2, 5)}),
     EventTail}

Feed == INSTANCE BoardFeed WITH
    Feeds <- SmallFeeds, Heights <- {1, 2, 4, 8}, SUMMARY_ROWS <- 5, EVENT_TAIL_ROWS <- 2, MAX_RECORDS <- 4

feedVars == <<feed, board, delivered>>

-----------------------------------------------------------------------------
(* Documents of three statements over a header, an array of tables,        *)
(* scalars, an array with a comment inside, and an inline table.           *)
NL == [t |-> "nl"]
Comment == [t |-> "comment"]
Mark(b) == [t |-> b]
Atom(kind, v) == [t |-> "atom", kind |-> kind, v |-> v]
Assign(k, value) == <<[t |-> "key", p |-> k]>> \o value

Scalar == Assign(<<"w">>, <<Atom("boolean", "true"), NL>>)
Statements ==
    { <<[t |-> "head", p |-> <<"a">>], NL>>,
      <<[t |-> "heads", p |-> <<"b">>], NL>>,
      Assign(<<"x">>, <<Atom("integer", "1"), Comment, NL>>),
      Assign(<<"y">>, <<Mark("["), Atom("integer", "1"), Comment, NL,
                        Atom("integer", "2"), Mark("]"), NL>>),
      Assign(<<"z">>, <<Mark("{"), [t |-> "ikey", p |-> <<"k">>], Atom("integer", "1"),
                        Mark("}"), NL>>),
      Scalar,
      Assign(<<"s", "t">>, <<Atom("string", "env"), NL>>) }

Frm == INSTANCE ConfigForm WITH
    Documents <- {a \o b \o c : a \in Statements, b \in Statements, c \in Statements},
    Typed <- { [kind |-> "integer", items |-> <<Atom("integer", "7")>>],
               [kind |-> "array", items |-> <<Atom("integer", "7"), Atom("integer", "8")>>],
               [kind |-> "array", items |-> <<Atom("integer", "7")>>] }

-----------------------------------------------------------------------------
(* Two consoles over one file, whose first two contents a form may own. *)
Lens == INSTANCE ConfigLens WITH
    Consoles <- {"c1", "c2"}, ConfigPaths <- {"routing"}, Docs <- {"d1", "d2", "d3"}, FIRST <- "d1",
    FormOwned <- {<<"routing", "d1">>, <<"routing", "d2">>},
    MAX_COMMITS <- 3, MAX_STRAYS <- 1, MAX_STARTS <- 2

lensVars == <<work, index, history, lock, console, evidence, item, keys, strays, starts>>

-----------------------------------------------------------------------------
(* A hall of two tasks, two attempts and an item, over two projects. *)
Hall == INSTANCE Estate WITH
    Tasks <- {"t1", "t2"}, Attempts <- {"a1", "a2"}, Items <- {"i1"}, Projects <- {"p", "q"},
    TaskKinds <- {"", "verify"}, AttemptStates <- {"leased", "done"}, MAX_SEQ <- 3

hallVars == <<tasks, attempts, items, seq>>

-----------------------------------------------------------------------------
(* Reads: two keys, three projections, pages of two rows. *)
Change(k, i, t) == [kind |-> k, id |-> i, type |-> t]

\* A command may change one row, or a task and its attempt together.
SmallWrites ==
    {<<Change("task", i, "task_changed")>> : i \in 1..2} \cup
    {<<Change("task", i, "task_changed"), Change("attempt", i, "attempt_changed")>> : i \in 1..2} \cup
    {<<Change("attention_item", 1, t)>> :
        t \in {"attention_raised", "attention_acknowledged", "attention_resolved"}}

SmallReaders ==
    {[how |-> "summary", kinds |-> <<"task", "attempt">>],
     [how |-> "board", kinds |-> <<"task", "attempt">>],
     [how |-> "flat", kinds |-> <<"task", "attempt">>],
     [how |-> "coherent", kinds |-> <<"task">>],
     [how |-> "estate", kinds |-> <<"task", "attempt", "attention_item">>]}

Read == INSTANCE Pages WITH
    index <- known,
    Ids <- 1..2, Readers <- SmallReaders, Writes <- SmallWrites,
    PAGE_LIMIT <- 2, MAX_PAGES <- 2, ATTEMPTS <- 2, EVENT_PAGE <- 2, MAX_EVENTS <- 3

readVars == <<log, rows, known, job>>

-----------------------------------------------------------------------------
MCInit ==
    /\ which \in Machines
    /\ Init /\ (which # "console" => menu = Typing)
    /\ Feed!FeedInit /\ (which # "feed" => feed = EventTail)
    /\ IF which = "form" THEN Frm!FormInit ELSE form = Frm!NewForm(Scalar)
    /\ Lens!Init
    /\ Hall!EstateInit
    /\ Read!Init /\ (which # "pages" => job.reader.how = "summary")

MCNext ==
    \/ /\ which = "console" /\ Next
       /\ UNCHANGED <<which, feedVars, form, lensVars, hallVars, readVars>>
    \/ /\ which = "feed" /\ Feed!FeedNext
       /\ UNCHANGED <<which, vars, form, lensVars, hallVars, readVars>>
    \/ /\ which = "form" /\ Frm!FormNext
       /\ UNCHANGED <<which, vars, feedVars, lensVars, hallVars, readVars>>
    \/ /\ which = "lens" /\ Lens!Next
       /\ UNCHANGED <<which, vars, feedVars, form, hallVars, readVars>>
    \/ /\ which = "hall" /\ Hall!EstateNext
       /\ UNCHANGED <<which, vars, feedVars, form, lensVars, readVars>>
    \/ /\ which = "pages" /\ Read!Next
       /\ UNCHANGED <<which, vars, feedVars, form, lensVars, hallVars>>

MCSpec == MCInit /\ [][MCNext]_<<which, vars, feedVars, form, lensVars, hallVars, readVars>>

-----------------------------------------------------------------------------
\* The hall and the board's lists account for every record of their pages
\* exactly once, keep the selection in view and add the ledger up; and the pages
\* beneath them are stamped with no more than they hold (the flat read apart), a
\* hall frame is one moment, and the hall gives up only over a write that landed
\* while it read or an item raised beside the log (BoardFeed, Estate, Pages).
ViewsAreHonest ==
    /\ which = "pages" => Read!StampIsAFloor /\ Read!EstateIsOneMoment /\ Read!RefusalsAreReal
    /\ which = "feed" => Feed!RecordsAccounted /\ Feed!FrameShowsSelection /\ Feed!LedgerBalances
    /\ which = "hall" => Hall!HallAccounts

\* ConfigLens and ConfigForm: a commit replaces exactly what its operator was
\* shown, and a form writes the fields it shows and nothing else.
EditsBuildOnWhatWasSeen ==
    /\ which = "lens" => Lens!LensBuildsOnWhatWasSeen
    /\ which = "form" => Frm!FormWritesWhatItShows
=============================================================================

---------------------------- MODULE MCTerminals -----------------------------
(***************************************************************************)
(* Small instances of a terminal on its way from the host to a pane: the   *)
(* host's screen and recording, the hub that fans its output out, and the  *)
(* arrangement of panes that shows it.  The machines share no state; a     *)
(* behaviour runs the one that "which" names and leaves the others where   *)
(* they began.                                                             *)
(***************************************************************************)
EXTENDS PtyHub

CONSTANTS
    Machines,    \* the machines this run exercises
    MAX_GLYPH    \* MAX_GLYPH_BYTES

VARIABLES
    which,
    (* Terminal *)
    grid, win, rec, screen, cells, refused, past, lost, apart, faults,
    (* Workspace *)
    rows, receipts, live, news, rt, pending, retired, again, surface, job, drawn, used, menu

-----------------------------------------------------------------------------
(* The hub, over the environments worth telling apart: each bounds how much *)
(* happens and names what may happen.                                       *)
Env(who, paints, chunks, connections, cuts, flags) ==
    [consumer |-> who, paints |-> paints, chunks |-> chunks, connections |-> connections,
     breaks |-> cuts,
     resizes |-> "resizes" \in flags, ends |-> "ends" \in flags, reseeds |-> "reseeds" \in flags,
     dropped |-> "dropped" \in flags, crash |-> "crash" \in flags,
     refuses |-> "refuses" \in flags]

Resized == Env("pane", {1}, 3, 2, 1, {"resizes"})
SmallEnvironments ==
    {Env("pane", {1, 2}, 3, 1, 1, {}),
     Resized,
     Env("pane", {1}, 2, 1, 2, {"resizes", "refuses"}),
     Env("pane", {1}, 3, 1, 1, {"reseeds"}),
     Env("pane", {1}, 2, 2, 1, {"ends"}),
     Env("pane", {1}, 2, 2, 2, {"crash"}),
     Env("pane", {1}, 2, 1, 1, {"ends", "dropped"}),
     Env("raw", {}, 3, 1, 1, {}),
     Env("raw", {}, 2, 2, 1, {"crash"})}

-----------------------------------------------------------------------------
(* Screens of up to four cells.  One of the paints is wide, one has two code *)
(* points, some are styled, one hides the cursor.                            *)
Paint(x, y, text, style, hidden) ==
    [x |-> x, y |-> y, text |-> text, style |-> style, hidden |-> hidden]
SmallPaints ==
    {Paint(1, 1, <<"a">>, "red", FALSE), Paint(2, 1, <<"a">>, "plain", FALSE),
     Paint(1, 1, <<"W">>, "plain", FALSE), Paint(2, 1, <<"W">>, "red", FALSE),
     Paint(1, 1, <<"e", "+">>, "plain", TRUE), Paint(2, 2, <<" ">>, "plain", FALSE),
     Paint(2, 1, <<"e", "+">>, "red", FALSE), Paint(1, 2, <<"b">>, "red", FALSE)}
SmallSizes == {<<2, 2>>, <<3, 1>>, <<0, 1>>}

Term == INSTANCE Terminal WITH
    mirror <- cells, Paints <- SmallPaints, WideClusters <- {<<"W">>}, PLAIN <- "plain", Sizes <- SmallSizes,
    CAP <- 1, MAX_AXIS <- 3, MAX_CELLS <- 4, MAX_EVENTS <- 3, MAX_FAULTS <- 1

ASSUME Term!TerminalAssumption

termVars == <<grid, win, rec, screen, cells, refused, past, lost, apart, faults>>

-----------------------------------------------------------------------------
(* Arrangements: one tab with two panes and a second that shows the first's *)
(* lifetime; a pane split off another; two panes on one lifetime.           *)
Node(kind, up, session, at) ==
  [kind |-> kind, parent |-> up, session |-> session, version |-> 1, at |-> at]
TwoTabs == <<Node("workspace", 0, "none", 1), Node("tab", 1, "none", 2), Node("pane", 2, "s1", 3),
             Node("pane", 2, "s2", 4), Node("tab", 1, "none", 5), Node("pane", 5, "s1", 6)>>
Nested == <<Node("workspace", 0, "none", 1), Node("tab", 1, "none", 2), Node("pane", 2, "s1", 3),
            Node("pane", 3, "s2", 4)>>
Shared == <<Node("workspace", 0, "none", 1), Node("tab", 1, "none", 2), Node("pane", 2, "s1", 3),
            Node("pane", 2, "s1", 4), Node("pane", 2, "s2", 5)>>

Menu(table, at, acts, actions, others, edits, failures, ends) ==
  [rows |-> table, surface |-> at, acts |-> acts, actions |-> actions, others |-> others,
   edits |-> edits, faults |-> failures, ends |-> ends, leave |-> {"LeaveWorkspace"}]

Structural == {"NewWorkspace", "NewTab", "SplitColumns", "SplitRows", "ClosePane", "CloseTab",
               "CloseWorkspace"}
Resizing == {"SplitColumns", "SplitRows", "GrowColumns", "ShrinkColumns", "GrowRows", "ShrinkRows",
             "ClosePane", "FocusLeft", "FocusUp", "FocusRight", "FocusDown"}
Empty == Menu([id \in {} |-> 0], "lifetimes", 3, Structural, 0, {}, 0, {})

SmallMenus ==
  { Empty,
    Menu(Nested, "attach", 3, Structural \cup {"NextTab", "NextWorkspace"}, 0, {}, 0, {}),
    Menu(Nested, "attach", 4, Resizing, 0, {}, 0, {}),
    Menu(Nested, "lifetimes", 2, {"ClosePane"}, 1, {"close", "create", "rebind"}, 2, {"s1"}),
    Menu(TwoTabs, "attach", 1, {"NextTab", "ClosePane", "SelectTab"}, 1, {"close"}, 1, {"s1"}),
    Menu(Shared, "attach", 1, {"ClosePane"}, 1, {"close"}, 1, {"s1"}) }

Arr == INSTANCE Workspace WITH
    minted <- drawn,
    WEIGHT_UNIT <- 120, RESIZE_STEP <- 12, MIN_WEIGHT <- 12, Sessions <- {"s1", "s2"},
    Area <- [x |-> 0, y |-> 0, w |-> 5, h |-> 3], Menus <- SmallMenus

arrVars == <<rows, receipts, live, news, rt, pending, retired, again, surface, job, drawn, used, menu>>

-----------------------------------------------------------------------------
MCInit ==
    /\ which \in Machines
    /\ Init  /\ (which # "hub" => env = Resized)
    /\ Term!Init /\ (which # "terminal" => win = <<2, 2>>)
    /\ Arr!Init  /\ (which # "workspace" => menu = Empty)

MCNext ==
    \/ /\ which = "hub" /\ Next
       /\ UNCHANGED <<which, env, termVars, arrVars>>
    \/ /\ which = "terminal" /\ Term!Next
       /\ UNCHANGED <<which, env, vars, arrVars>>
    \/ /\ which = "workspace" /\ Arr!Next
       /\ UNCHANGED <<which, env, vars, termVars>>

\* The fairness each machine states, while that machine runs.
MCFairness ==
    /\ WF_vars(which = "hub" /\ Publisher)
    /\ WF_vars(which = "hub" /\ PubRetire /\ SessionOver)
    /\ \A g \in 1 .. 2 :
        /\ WF_vars(which = "hub" /\ g # pub.conn /\ Hangup(g))
        /\ WF_vars(which = "hub" /\ OpenReceipt(g))
        /\ WF_vars(which = "hub" /\ CloseReceipt(g))
    /\ WF_vars(which = "hub" /\ HubAttach)
    /\ WF_vars(which = "hub" /\ AttachSend)
    /\ WF_vars(which = "hub" /\ AttachEnd /\ UNCHANGED breaks)
    /\ WF_vars(which = "hub" /\ Write)
    /\ WF_vars(which = "hub" /\ Store)
    /\ WF_vars(which = "hub" /\ Workspace)
    /\ WF_vars(which = "hub" /\ CloseEvent)
    /\ WF_vars(which = "hub" /\ RawClient)
    /\ []<>(which # "workspace" \/ Arr!Quiet \/ ~Arr!Running) \/ []<><<Arr!Handler>>_arrVars
    /\ []<>(which # "workspace" \/ ~Arr!TickDue) \/ []<><<Arr!Tick>>_arrVars
    /\ []<>(which # "workspace" \/ ~Arr!BatchDue) \/ []<><<Arr!EventBatch>>_arrVars

MCSpec == MCInit /\ [][MCNext]_<<which, env, vars, termVars, arrVars>> /\ MCFairness

-----------------------------------------------------------------------------
\* Terminal: the host's screen, the kernel's cells and the child's grid agree, a
\* reader that catches up from the recording does too, and no half of a resize
\* stands alone.
ScreensAgree == which = "terminal" => Term!ScreensAgree /\ Term!RecordingResumes /\ Term!HalvesAgree

\* Terminal: protocol.rs, pty.rs: the bound on a glyph "never touches a real
\* screen".
BoundNeverTouched == Term!BoundNeverTouched

\* Workspace: whatever was split, resized, closed and rebuilt, the panes
\* of every tab tile its area, every row finds its place, and at rest the facts
\* the next command is planned against are the kernel's rows.
ArrangementSound ==
    which = "workspace" => Arr!LayoutSound /\ Arr!NothingIgnored /\ Arr!FactsAreRows

\* The panes come to rest: a bound pane streams what the hub holds or is closed
\* because its lifetime is over, and none goes on showing a lifetime that ended.
PanesSettle ==
    <>[](/\ which = "hub" => AtRest
         /\ which = "workspace" => Arr!NoneEnded)
=============================================================================

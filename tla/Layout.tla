------------------------------- MODULE Layout -------------------------------
(***************************************************************************)
(* The mux object model (crates/gwk-tui/src/workspace/mod.rs) and its      *)
(* rebuild from projection rows (workspace/arrange.rs).                    *)
(*                                                                         *)
(* A layout is [workspaces, active, next_pane]; a workspace is [tabs,      *)
(* active]; a tab is [root, focus]; a tree node is a leaf that holds a     *)
(* pane id or a split whose parts carry weights.  Indices are 1-based and  *)
(* active is 0 when there is nothing to be active.  Titles are left out.   *)
(***************************************************************************)
EXTENDS Integers, FiniteSets, SequencesExt

CONSTANTS WEIGHT_UNIT, RESIZE_STEP, MIN_WEIGHT   \* 120, 12 and 12 in the code

Leaf(pane) == [pane |-> pane, axis |-> "none", parts |-> <<>>]
Split(axis, parts) == [pane |-> 0, axis |-> axis, parts |-> parts]
Part(weight, node) == [weight |-> weight, node |-> node]
IsLeaf(node) == node.axis = "none"
Tab(pane) == [root |-> Leaf(pane), focus |-> pane]

\* The lists F gives for the members of a sequence, one after the other.
FlatMap(F(_), s) ==
  LET flat[i \in 0 .. Len(s)] == IF i = 0 THEN <<>> ELSE flat[i - 1] \o F(s[i])
  IN  flat[Len(s)]

RECURSIVE pane_ids(_)
pane_ids(node) ==
  IF IsLeaf(node) THEN <<node.pane>> ELSE FlatMap(LAMBDA p : pane_ids(p.node), node.parts)

contains_pane(node, pane) == pane \in ToSet(pane_ids(node))
first_pane(node) == Head(pane_ids(node))
pane_count(tab) == Len(pane_ids(tab.root))

-----------------------------------------------------------------------------
(* Geometry: weights are shares, the solver turns them into rectangles.    *)

Rect(x, y, w, h) == [x |-> x, y |-> y, w |-> w, h |-> h]

TotalWeight(parts, n) ==
  LET sum[i \in 0 .. n] == IF i = 0 THEN 0 ELSE sum[i - 1] + parts[i].weight IN sum[n]

\* Where the n-th part ends: the rounded share of everything up to it.
Boundary(parts, n, extent) ==
  LET total == TotalWeight(parts, Len(parts))
  IN  (extent * TotalWeight(parts, n) + total \div 2) \div total

PartRect(split, n, area) ==
  LET extent == IF split.axis = "columns" THEN area.w ELSE area.h
      from == Boundary(split.parts, n - 1, extent)
      size == Boundary(split.parts, n, extent) - from
  IN  IF split.axis = "columns" THEN Rect(area.x + from, area.y, size, area.h)
      ELSE Rect(area.x, area.y + from, area.w, size)

RECURSIVE pane_rects(_, _)
pane_rects(node, area) ==
  IF IsLeaf(node) THEN <<[pane |-> node.pane, rect |-> area]>>
  ELSE FlatMap(LAMBDA i : pane_rects(node.parts[i].node, PartRect(node, i, area)),
               [i \in DOMAIN node.parts |-> i])

-----------------------------------------------------------------------------
(* Tree edits.                                                             *)

LeafIndex(split, pane) ==
  IF \E i \in DOMAIN split.parts : split.parts[i].node = Leaf(pane)
  THEN CHOOSE i \in DOMAIN split.parts : split.parts[i].node = Leaf(pane) ELSE 0

RECURSIVE split_at(_, _, _, _)
split_at(node, pane, axis, new) ==
  IF IsLeaf(node)
  THEN IF node.pane = pane
       THEN Split(axis, <<Part(WEIGHT_UNIT, Leaf(pane)), Part(WEIGHT_UNIT, Leaf(new))>>)
       ELSE node
  ELSE LET i == LeafIndex(node, pane)
           half == IF node.parts[i].weight \div 2 < 1 THEN 1 ELSE node.parts[i].weight \div 2
           kept == IF node.parts[i].weight - half < 1 THEN 1 ELSE node.parts[i].weight - half
       IN  IF node.axis = axis /\ i # 0
           THEN [node EXCEPT !.parts = InsertAt([@ EXCEPT ![i].weight = kept], i + 1,
                                                Part(half, Leaf(new)))]
           ELSE [node EXCEPT !.parts =
                   [j \in DOMAIN @ |-> Part(@[j].weight, split_at(@[j].node, pane, axis, new))]]

\* A split left with one part collapses into that part.
Collapse(split) == IF Len(split.parts) = 1 THEN split.parts[1].node ELSE split

RECURSIVE remove_at(_, _)
remove_at(node, pane) ==
  IF IsLeaf(node) THEN node
  ELSE IF LeafIndex(node, pane) # 0
       THEN Collapse([node EXCEPT !.parts = RemoveAt(@, LeafIndex(node, pane))])
       ELSE [node EXCEPT !.parts =
               [j \in DOMAIN @ |-> Part(@[j].weight, remove_at(@[j].node, pane))]]

\* The pane that absorbs the space of a removed one takes its focus.
RECURSIVE Absorber(_, _)
Absorber(node, pane) ==
  LET i == LeafIndex(node, pane)
      rest == RemoveAt(node.parts, i)
  IN  IF i # 0 THEN first_pane(rest[IF i > Len(rest) THEN Len(rest) ELSE i].node)
      ELSE LET j == CHOOSE k \in DOMAIN node.parts : contains_pane(node.parts[k].node, pane)
           IN  Absorber(node.parts[j].node, pane)

RECURSIVE Resizable(_, _, _)
Resizable(node, pane, axis) ==
  /\ ~IsLeaf(node)
  /\ \E i \in DOMAIN node.parts :
       /\ contains_pane(node.parts[i].node, pane)
       /\ Resizable(node.parts[i].node, pane, axis)
          \/ (node.axis = axis /\ Len(node.parts) >= 2)

\* The innermost split on the axis trades a step between the pane's part and
\* its neighbour; the donor keeps MIN_WEIGHT.
RECURSIVE resize_at(_, _, _, _)
resize_at(node, pane, axis, grow) ==
  IF ~Resizable(node, pane, axis) THEN node
  ELSE LET i == CHOOSE k \in DOMAIN node.parts : contains_pane(node.parts[k].node, pane)
           near == IF i < Len(node.parts) THEN i + 1 ELSE i - 1
           donor == IF grow THEN near ELSE i
           taker == IF grow THEN i ELSE near
           spare == node.parts[donor].weight - MIN_WEIGHT
           step == IF spare <= 0 THEN 0 ELSE IF spare < RESIZE_STEP THEN spare ELSE RESIZE_STEP
       IN  IF Resizable(node.parts[i].node, pane, axis)
           THEN [node EXCEPT !.parts[i].node = resize_at(@, pane, axis, grow)]
           ELSE [node EXCEPT !.parts[donor].weight = @ - step, !.parts[taker].weight = @ + step]

-----------------------------------------------------------------------------
(* Directional focus: nearest edge, then most overlap, then top-left.      *)

beyond(from, to, dir) ==
  CASE dir = "left"  -> to.x + to.w <= from.x
    [] dir = "right" -> to.x >= from.x + from.w
    [] dir = "up"    -> to.y + to.h <= from.y
    [] dir = "down"  -> to.y >= from.y + from.h

edge_gap(from, to, dir) ==
  CASE dir = "left"  -> from.x - (to.x + to.w)
    [] dir = "right" -> to.x - (from.x + from.w)
    [] dir = "up"    -> from.y - (to.y + to.h)
    [] dir = "down"  -> to.y - (from.y + from.h)

Lower(a, b) == IF a < b THEN a ELSE b
Higher(a, b) == IF a > b THEN a ELSE b

lateral_overlap(from, to, dir) ==
  LET span == IF dir \in {"left", "right"}
              THEN Lower(from.y + from.h, to.y + to.h) - Higher(from.y, to.y)
              ELSE Lower(from.x + from.w, to.x + to.w) - Higher(from.x, to.x)
  IN  Higher(span, 0)

FocusKey(from, to, dir) == <<edge_gap(from, to, dir), -lateral_overlap(from, to, dir), to.y, to.x>>
Before(a, b) == \E i \in DOMAIN a : a[i] < b[i] /\ \A j \in 1 .. (i - 1) : a[j] = b[j]

FocusToward(tab, dir, area) ==
  LET rects == pane_rects(tab.root, area)
      from == rects[CHOOSE i \in DOMAIN rects : rects[i].pane = tab.focus].rect
      open == {i \in DOMAIN rects : /\ rects[i].pane # tab.focus
                                    /\ rects[i].rect.w > 0 /\ rects[i].rect.h > 0
                                    /\ beyond(from, rects[i].rect, dir)}
      key(i) == FocusKey(from, rects[i].rect, dir)
  IN  IF open = {} THEN tab.focus
      ELSE rects[CHOOSE i \in open : \A j \in open : ~Before(key(j), key(i))].pane

-----------------------------------------------------------------------------
(* Operations on the whole layout.                                         *)

active_workspace(l) == l.workspaces[l.active]
HasTab(l) == l.active # 0
active_tab(l) == LET w == active_workspace(l) IN w.tabs[w.active]
focused_pane(l) == IF HasTab(l) THEN active_tab(l).focus ELSE 0
SetTab(l, tab) == [l EXCEPT !.workspaces[l.active].tabs[active_workspace(l).active] = tab]

create_workspace(l) ==
  [workspaces |-> Append(l.workspaces, [tabs |-> <<Tab(l.next_pane)>>, active |-> 1]),
   active |-> Len(l.workspaces) + 1, next_pane |-> l.next_pane + 1]

create_tab(l) ==
  IF ~HasTab(l) THEN [l EXCEPT !.next_pane = @ + 1]
  ELSE [l EXCEPT !.workspaces[l.active] = [tabs |-> Append(@.tabs, Tab(l.next_pane)),
                                           active |-> Len(@.tabs) + 1],
                 !.next_pane = @ + 1]

split(l, axis) ==
  LET tab == active_tab(l)
  IN  IF ~HasTab(l) THEN l
      ELSE [SetTab(l, [root |-> split_at(tab.root, tab.focus, axis, l.next_pane),
                       focus |-> l.next_pane]) EXCEPT !.next_pane = @ + 1]

close_workspace(l) ==
  IF l.workspaces = <<>> THEN l
  ELSE [l EXCEPT !.workspaces = RemoveAt(@, l.active),
                 !.active = IF @ > Len(l.workspaces) - 1 THEN Len(l.workspaces) - 1 ELSE @]

close_tab(l) ==
  IF ~HasTab(l) THEN l
  ELSE IF Len(active_workspace(l).tabs) <= 1 THEN close_workspace(l)
  ELSE [l EXCEPT !.workspaces[l.active] =
          [tabs |-> RemoveAt(@.tabs, @.active),
           active |-> IF @.active > Len(@.tabs) - 1 THEN Len(@.tabs) - 1 ELSE @.active]]

close_pane(l) ==
  LET tab == active_tab(l)
  IN  IF ~HasTab(l) THEN l
      ELSE IF IsLeaf(tab.root) THEN close_tab(l)
      ELSE SetTab(l, [root |-> remove_at(tab.root, tab.focus),
                      focus |-> Absorber(tab.root, tab.focus)])

Cycle(active, delta, count) == ((active - 1 + delta + count) % count) + 1

next_workspace(l, delta) ==
  IF ~HasTab(l) THEN l ELSE [l EXCEPT !.active = Cycle(@, delta, Len(l.workspaces))]
next_tab(l, delta) ==
  IF ~HasTab(l) THEN l
  ELSE [l EXCEPT !.workspaces[l.active].active = Cycle(@, delta, Len(active_workspace(l).tabs))]
select_tab(l, index) ==
  IF HasTab(l) /\ index <= Len(active_workspace(l).tabs)
  THEN [l EXCEPT !.workspaces[l.active].active = index] ELSE l
focus_pane(l, pane) ==
  IF HasTab(l) /\ contains_pane(active_tab(l).root, pane)
  THEN SetTab(l, [active_tab(l) EXCEPT !.focus = pane]) ELSE l
move_focus(l, dir, area) ==
  IF ~HasTab(l) THEN l
  ELSE SetTab(l, [active_tab(l) EXCEPT !.focus = FocusToward(active_tab(l), dir, area)])
resize(l, axis, grow) ==
  IF ~HasTab(l) THEN l
  ELSE SetTab(l, [active_tab(l) EXCEPT !.root = resize_at(@, active_tab(l).focus, axis, grow)])

\* Host-local actions of workspace/input.rs and what each does to the layout.
HostActions == {"FocusLeft", "FocusRight", "FocusUp", "FocusDown", "NextTab", "PreviousTab",
                "NextWorkspace", "PreviousWorkspace", "SelectTab", "GrowColumns",
                "ShrinkColumns", "GrowRows", "ShrinkRows"}

apply(l, action, area) ==
  CASE action = "FocusLeft"  -> move_focus(l, "left", area)
    [] action = "FocusRight" -> move_focus(l, "right", area)
    [] action = "FocusUp"    -> move_focus(l, "up", area)
    [] action = "FocusDown"  -> move_focus(l, "down", area)
    [] action = "NextTab" -> next_tab(l, 1)
    [] action = "PreviousTab" -> next_tab(l, -1)
    [] action = "NextWorkspace" -> next_workspace(l, 1)
    [] action = "PreviousWorkspace" -> next_workspace(l, -1)
    [] action = "SelectTab" -> select_tab(l, 2)
    [] action = "GrowColumns" -> resize(l, "columns", TRUE)
    [] action = "ShrinkColumns" -> resize(l, "columns", FALSE)
    [] action = "GrowRows" -> resize(l, "rows", TRUE)
    [] action = "ShrinkRows" -> resize(l, "rows", FALSE)

-----------------------------------------------------------------------------
(* The rebuild from rows: id |-> [kind, parent, session, version, at].     *)

NoNode == 0
Siblings(rows, parent, kind) ==
  SetToSortSeq({id \in DOMAIN rows : rows[id].parent = parent /\ rows[id].kind = kind},
               LAMBDA a, b : Before(<<rows[a].at, a>>, <<rows[b].at, b>>))

Bound(rows, id) ==
  IF id = NoNode THEN [node |-> NoNode, version |-> 0, parent |-> NoNode, session |-> "none"]
  ELSE [node |-> id, version |-> rows[id].version, parent |-> rows[id].parent,
        session |-> rows[id].session]

\* Panes are minted in the order the builder visits them: parent first, then
\* its pane children, each with its own.
RECURSIVE PaneOrder(_, _)
PaneOrder(rows, ids) ==
  FlatMap(LAMBDA id : <<id>> \o PaneOrder(rows, Siblings(rows, id, "pane")), ids)

Mint(order, base, id) == base + (CHOOSE i \in DOMAIN order : order[i] = id) - 1

RECURSIVE BuildPane(_, _, _, _)
BuildPane(rows, order, base, id) ==
  LET kids == Siblings(rows, id, "pane")
      leaf == Leaf(Mint(order, base, id))
  IN  IF kids = <<>> THEN leaf
      ELSE Split("columns", <<Part(WEIGHT_UNIT, leaf)>> \o
                 [i \in DOMAIN kids |-> Part(WEIGHT_UNIT, BuildPane(rows, order, base, kids[i]))])

\* A container without children gets a placeholder pane, bound to no row.
TabPanes(rows, tab) ==
  LET panes == Siblings(rows, tab, "pane")
  IN  IF panes = <<>> THEN <<NoNode>> ELSE PaneOrder(rows, panes)
WorkspacePanes(rows, workspace) ==
  LET tabs == Siblings(rows, workspace, "tab")
  IN  IF tabs = <<>> THEN <<NoNode>>
      ELSE FlatMap(LAMBDA t : TabPanes(rows, t), tabs)

BuildTab(rows, id, base) ==
  LET panes == Siblings(rows, id, "pane")
      order == TabPanes(rows, id)
      root == IF panes = <<>> THEN Leaf(base)
              ELSE IF Len(panes) = 1 THEN BuildPane(rows, order, base, panes[1])
              ELSE Split("columns", [i \in DOMAIN panes |->
                           Part(WEIGHT_UNIT, BuildPane(rows, order, base, panes[i]))])
  IN  [root |-> root, focus |-> first_pane(root)]

BuildWorkspace(rows, id, base) ==
  LET tabs == Siblings(rows, id, "tab")
      earlier(i) == Len(FlatMap(LAMBDA t : TabPanes(rows, t), SubSeq(tabs, 1, i - 1)))
  IN  [tabs |-> IF tabs = <<>> THEN <<Tab(base)>>
                ELSE [i \in DOMAIN tabs |-> BuildTab(rows, tabs[i], base + earlier(i))],
       active |-> 1]

\* Everything the rows carry; what no tree reaches is reported as ignored.
reproduce(rows) ==
  LET roots == Siblings(rows, NoNode, "workspace")
      minted == FlatMap(LAMBDA w : WorkspacePanes(rows, w), roots)
      earlier(i) == Len(FlatMap(LAMBDA w : WorkspacePanes(rows, w), SubSeq(roots, 1, i - 1)))
      tabs == FlatMap(LAMBDA w : Siblings(rows, w, "tab"), roots)
  IN  [state |-> [workspaces |-> [i \in DOMAIN roots |->
                                    BuildWorkspace(rows, roots[i], 1 + earlier(i))],
                  active |-> IF roots = <<>> THEN 0 ELSE 1,
                  next_pane |-> Len(minted) + 1],
       bindings |-> [i \in DOMAIN minted |-> Bound(rows, minted[i])],
       containers |-> [i \in DOMAIN roots |->
                         [node |-> roots[i], tabs |-> Siblings(rows, roots[i], "tab")]],
       ignored |-> DOMAIN rows \ (ToSet(roots) \cup ToSet(tabs) \cup ToSet(minted))]
=============================================================================
